---------------------------- MODULE Spec2Model ----------------------------
(***************************************************************************)
(* A model of the telemetry data service                                   *)
(* (src/data-service/services/data_processor.py, class TelemetryProcessor).*)
(*                                                                         *)
(* A pandas DataFrame is a record [columns, rows]: columns is the sequence *)
(* of column labels, rows the sequence of rows, a row being a sequence of  *)
(* cells aligned with columns.  A cell is a record [k, v]:                 *)
(*   k = "num"  a number (v)                 k = "nan"  a missing cell     *)
(*   k = "txt"  the text spelling number v   k = "str"  non-numeric text   *)
(* Floats are modelled by integers and by exact fractions [num, den];      *)
(* floating-point rounding is not modelled.                                *)
(***************************************************************************)
EXTENDS Integers, Sequences, FiniteSets, TLC

VARIABLES
    calls,                \* the calls in progress on the shared TelemetryProcessor
    argsort_ties,         \* how the argsort of the installed numpy orders equal keys
    pc,                   \* position of the call being served
    content,              \* the uploaded bytes, as the decoder sees them
    encoding,             \* the encoding _read_csv_content tried last
    filename,             \* the advisory file name of the upload
    df,                   \* the DataFrame of the call
    metadata,             \* SessionMetadata of the call
    lap_analysis,         \* List[LapAnalysis]
    performance_metrics,  \* PerformanceMetrics
    report,               \* result of validate_csv_file
    session_data,         \* the sessions handed to compare_sessions
    comparison,           \* result of compare_sessions
    insights,             \* result of _generate_insights
    metric_list,          \* the metrics handed to _generate_comparison_recommendations
    recommendation_list   \* result of _generate_comparison_recommendations

vars == <<calls, argsort_ties, pc, content, encoding, filename, df, metadata, lap_analysis, performance_metrics,
          report, session_data, comparison, insights, metric_list,
          recommendation_list>>

-----------------------------------------------------------------------------
(* Bounds of the model *)

MaxLapRows == 5      \* rows of a cleaned table handed to the lap segmenter
MaxSegRows == 10     \* rows of a marker-only table (lap_time present/missing)
MaxRows == 2         \* data rows of an uploaded table
MaxSessions == 2     \* sessions handed to compare_sessions

-----------------------------------------------------------------------------
(* Cells and floats *)

NaN == [k |-> "nan", v |-> 0]
Inf == [k |-> "inf", v |-> 0]
Num(n) == [k |-> "num", v |-> n]
Txt(n) == [k |-> "txt", v |-> n]
Str(i) == [k |-> "str", v |-> i]

isna(c) == c.k = "nan"
notna(c) == ~isna(c)

\* float '<' and '>': every comparison with NaN is False
Lt(a, b) ==
    /\ a.k \in {"num", "inf"}
    /\ b.k \in {"num", "inf"}
    /\ a.k = "num"
    /\ (b.k = "inf" \/ a.v < b.v)
Gt(a, b) == Lt(b, a)

\* a float that is not an integer: the exact fraction num/den (den > 0);
\* den = 0 stands for the float NaN
Frac(n, d) == [num |-> n, den |-> d]
Zero == Frac(0, 1)
FracNaN == Frac(0, 0)
FracEq(a, b) == a.num * b.den = b.num * a.den

RECURSIVE SumSeq(_)
SumSeq(s) == IF s = <<>> THEN 0 ELSE Head(s) + SumSeq(Tail(s))

RECURSIVE MinSeq(_)
MinSeq(s) ==
    IF Len(s) = 1 THEN s[1]
    ELSE LET m == MinSeq(Tail(s)) IN IF m < s[1] THEN m ELSE s[1]

RECURSIVE MaxSeq(_)
MaxSeq(s) ==
    IF Len(s) = 1 THEN s[1]
    ELSE LET m == MaxSeq(Tail(s)) IN IF m > s[1] THEN m ELSE s[1]

RECURSIVE SelectIdx(_, _, _)
\* the indices i in lo..hi with P[i], ascending
SelectIdx(P, lo, hi) ==
    IF lo > hi THEN <<>>
    ELSE (IF P[lo] THEN <<lo>> ELSE <<>>) \o SelectIdx(P, lo + 1, hi)

-----------------------------------------------------------------------------
(* DataFrame helpers *)

NRows(d) == Len(d.rows)
NCols(d) == Len(d.columns)
ColIdx(d, name) == {j \in 1..NCols(d) : d.columns[j] = name}
HasCol(d, name) == ColIdx(d, name) # {}
UniqueCol(d, name) == Cardinality(ColIdx(d, name)) = 1
\* df[name] for a label carried by one column: the Series of its cells
Series(d, name) ==
    LET j == CHOOSE j \in ColIdx(d, name) : TRUE
    IN  [i \in 1..NRows(d) |-> d.rows[i][j]]

\* the values present in a numeric Series (skipna)
Present(s) ==
    LET idx == SelectIdx([i \in 1..Len(s) |-> s[i].k = "num"], 1, Len(s))
    IN  [n \in 1..Len(idx) |-> s[idx[n]].v]

\* Series.max() / Series.mean(): NaN for a Series with no value present
series_max(s) == IF Present(s) = <<>> THEN NaN ELSE Num(MaxSeq(Present(s)))
series_mean(s) ==
    IF Present(s) = <<>> THEN FracNaN
    ELSE Frac(SumSeq(Present(s)), Len(Present(s)))

\* float(x) if not pd.isna(x) else 0.0
NumOrZero(c) == IF c.k = "num" THEN c.v ELSE 0
FracOrZero(f) == IF f.den = 0 THEN Zero ELSE f

\* df[name] = values: replaces the column in place, or appends it
SetColumn(d, name, values) ==
    IF HasCol(d, name)
    THEN [d EXCEPT !.rows =
            [i \in 1..NRows(d) |->
                [j \in 1..NCols(d) |->
                    IF d.columns[j] = name THEN values[i] ELSE d.rows[i][j]]]]
    ELSE [columns |-> Append(d.columns, name),
          rows |-> [i \in 1..NRows(d) |-> Append(d.rows[i], values[i])]]

-----------------------------------------------------------------------------
(* _read_csv_content *)

\* Results of calls that may raise: [exc, value], exc = "none" on return
Return(v) == [exc |-> "none", value |-> v]
Raise(e) == [exc |-> e, value |-> <<>>]

encodings == <<"utf-8", "latin-1", "cp1252">>

\* content.decode[n] is what the n-th encoding does with the bytes: "ok"
\* (decoded and parsed), "UnicodeDecodeError" or "ParserError" (any other
\* exception of pd.read_csv, e.g. EmptyDataError); content.tables[n] is the
\* table parsed from the text the n-th encoding decodes, and content.table
\* the table of the upload
\* a loop that goes through the encodings from the last to the first
RECURSIVE try_encodings_reversed(_, _)
try_encodings_reversed(c, n) ==
    LET m == Len(encodings) + 1 - n
    IN  IF n > Len(encodings)
        THEN Raise("ValueError")
        ELSE IF c.decode[m] = "ok" THEN Return(c.tables[m])
             ELSE try_encodings_reversed(c, n + 1)

\* for encoding in encodings, from the n-th on
RECURSIVE try_encodings(_, _)
try_encodings(c, n) ==
    IF n > Len(encodings)
    THEN Raise("ValueError")
    ELSE IF c.decode[n] = "ok" THEN Return(c.tables[n])
         ELSE try_encodings(c, n + 1)

\* the index of the encoding the loop stops at
RECURSIVE last_tried(_, _)
last_tried(c, n) ==
    IF n >= Len(encodings) \/ c.decode[n] = "ok" THEN n
    ELSE last_tried(c, n + 1)

read_csv_content(c) == try_encodings(c, 1)

-----------------------------------------------------------------------------
(* _normalize_column_names *)

CanonicalNames ==
    <<"time", "speed", "rpm", "throttle", "brake", "steering", "gear",
      "latitude", "longitude", "g_force_x", "g_force_y", "g_force_z",
      "lap_time", "sector_time", "distance">>

parameter_aliases ==
    [name \in {CanonicalNames[i] : i \in 1..Len(CanonicalNames)} |->
        CASE name = "time" -> {"Time", "time", "TIME", "Timestamp", "timestamp"}
          [] name = "speed" -> {"Speed", "speed", "SPEED", "Vehicle Speed", "Velocity"}
          [] name = "rpm" -> {"RPM", "rpm", "Engine RPM", "Engine Speed"}
          [] name = "throttle" -> {"Throttle", "throttle", "TPS", "Throttle Position"}
          [] name = "brake" -> {"Brake", "brake", "Brake Pressure", "Brake Force"}
          [] name = "steering" -> {"Steering", "steering", "Steering Angle", "Steer"}
          [] name = "gear" -> {"Gear", "gear", "Current Gear", "Gear Position"}
          [] name = "latitude" -> {"Latitude", "latitude", "LAT", "GPS Latitude"}
          [] name = "longitude" -> {"Longitude", "longitude", "LON", "GPS Longitude"}
          [] name = "g_force_x" -> {"G-Force X", "G Force X", "Lateral G", "Ay"}
          [] name = "g_force_y" -> {"G-Force Y", "G Force Y", "Longitudinal G", "Ax"}
          [] name = "g_force_z" -> {"G-Force Z", "G Force Z", "Vertical G", "Az"}
          [] name = "lap_time" -> {"Lap Time", "Lap", "Current Lap Time"}
          [] name = "sector_time" -> {"Sector Time", "Sector", "Current Sector"}
          [] name = "distance" -> {"Distance", "distance", "Track Distance"}]

\* the first column, in column order, that is one of the aliases; <<>> is None
\* the spelling of a header with its case and whitespace as an alias list
\* writes it, for the headers that differ from an alias in nothing else
AliasSpelling(col) ==
    CASE col = "lap time" -> "Lap Time"
      [] col = "Rpm" -> "RPM"
      [] col = "GEAR" -> "Gear"
      [] OTHER -> col

\* a search that compares headers to aliases without regard to case
RECURSIVE find_from_any_case(_, _, _)
find_from_any_case(columns, aliases, j) ==
    IF j > Len(columns) THEN <<>>
    ELSE IF AliasSpelling(columns[j]) \in aliases THEN <<columns[j]>>
         ELSE find_from_any_case(columns, aliases, j + 1)

\* for col in columns: if col in aliases: return col
RECURSIVE find_from(_, _, _)
find_from(columns, aliases, j) ==
    IF j > Len(columns) THEN <<>>
    ELSE IF columns[j] \in aliases THEN <<columns[j]>>
         ELSE find_from(columns, aliases, j + 1)

\* a search that looks at the first column only
find_column_in_first(columns, aliases) ==
    IF columns # <<>> /\ columns[1] \in aliases THEN <<columns[1]>> ELSE <<>>

find_column_by_aliases(columns, aliases) == find_from(columns, aliases, 1)

\* column_mapping after the loop over parameter_aliases.items(): a later
\* standard name overwrites an earlier one stored under the same key
column_mapping(columns) ==
    LET found == [n \in 1..Len(CanonicalNames) |->
                    find_column_by_aliases(columns,
                                           parameter_aliases[CanonicalNames[n]])]
        keys == {found[n][1] : n \in {m \in 1..Len(CanonicalNames) : found[m] # <<>>}}
    IN  [col \in keys |->
            LET n == CHOOSE n \in 1..Len(CanonicalNames) :
                        /\ found[n] = <<col>>
                        /\ \A m \in 1..Len(CanonicalNames) :
                              found[m] = <<col>> => m <= n
            IN  CanonicalNames[n]]

\* df.rename(columns=column_mapping)
normalize_column_names(d) ==
    LET mapping == column_mapping(d.columns)
    IN  [d EXCEPT !.columns =
            [j \in 1..NCols(d) |->
                IF d.columns[j] \in DOMAIN mapping
                THEN mapping[d.columns[j]] ELSE d.columns[j]]]

-----------------------------------------------------------------------------
(* _extract_metadata *)

\* A file name is [name, driver, keywords]: driver is the group matched by
\* the pattern "([A-Za-z\s]+)\s+Round", stripped (<<>> when there is no
\* match), keywords the words of {practice, qualifying, race} that the
\* lower-cased name contains.
session_type_of(f) ==
    IF "practice" \in f.keywords THEN "Practice"
    ELSE IF "qualifying" \in f.keywords THEN "Qualifying"
    ELSE IF "race" \in f.keywords THEN "Race"
    ELSE "Unknown"

\* a column of text: '-' between two of its cells raises, as does comparing
\* text with a missing cell
IsObject(s) == \E i \in 1..Len(s) : s[i].k \in {"txt", "str"}

\* duration and total_laps are <<>> for None, <<x>> otherwise; the date field
\* is the wall clock and is left out
extract_metadata(d, f) ==
    LET duration ==
            IF ~HasCol(d, "time") THEN <<>>
            ELSE IF IsObject(Series(d, "time")) THEN <<>>     \* except: pass
            ELSE IF Present(Series(d, "time")) = <<>> THEN <<NaN>>
            ELSE <<Num(MaxSeq(Present(Series(d, "time")))
                       - MinSeq(Present(Series(d, "time"))))>>
        total_laps ==
            IF ~HasCol(d, "lap_time") THEN <<>>
            ELSE <<Cardinality({i \in 1..NRows(d) : notna(Series(d, "lap_time")[i])})>>
    IN  \* two columns under one label: df[label] is a DataFrame, the
        \* aggregate a Series, which the model's field validation rejects
        IF (HasCol(d, "time") /\ ~UniqueCol(d, "time"))
           \/ (HasCol(d, "lap_time") /\ ~UniqueCol(d, "lap_time"))
        THEN Raise("ValidationError")
        ELSE Return([driver_name |-> f.driver,
                     track_name |-> "Unknown Track",
                     session_type |-> session_type_of(f),
                     weather |-> "Unknown",
                     duration |-> duration,
                     total_laps |-> total_laps])

-----------------------------------------------------------------------------
(* _clean_data *)

numeric_columns ==
    {"speed", "rpm", "throttle", "brake", "steering", "gear",
     "g_force_x", "g_force_y", "g_force_z", "lap_time", "sector_time", "distance"}

\* pd.to_numeric(..., errors='coerce') on one cell, left as it is
to_numeric_kept(c) == c

\* pd.to_numeric(..., errors='coerce') on one cell
to_numeric(c) ==
    CASE c.k = "num" -> c
      [] c.k = "txt" -> Num(c.v)
      [] OTHER -> NaN

\* df.dropna(how='all')
dropna_all(d) ==
    LET keep == SelectIdx([i \in 1..NRows(d) |->
                             \E j \in 1..NCols(d) : notna(d.rows[i][j])],
                          1, NRows(d))
    IN  [d EXCEPT !.rows = [n \in 1..Len(keep) |-> d.rows[keep[n]]]]

\* the order of the values of a column: numbers by value; text by code
\* point, where the spelling of a one-digit number sorts before other text
KeyLt(a, b) ==
    \/ a.k = "num" /\ b.k = "num" /\ a.v < b.v
    \/ a.k = "txt" /\ b.k = "txt" /\ a.v < b.v
    \/ a.k = "txt" /\ b.k = "str"
    \/ a.k = "str" /\ b.k = "str" /\ a.v < b.v

Permutations_of(n) ==
    {p \in [1..n -> 1..n] : \A i, j \in 1..n : p[i] = p[j] => i = j}

\* df.sort_values('time'): kind='quicksort' is not a stable sort, so rows
\* with equal keys may come out in any order; rows with a missing key are
\* put last in their original order
sort_orders(s) ==
    {p \in Permutations_of(Len(s)) :
        \A i, j \in 1..Len(s) :
            i < j =>
                /\ ~KeyLt(s[p[j]], s[p[i]])
                /\ (isna(s[p[i]]) => isna(s[p[j]]) /\ p[i] < p[j])}

\* the possible results of _clean_data
clean_data(d) ==
    LET d1 == dropna_all(d)
        sorted == IF HasCol(d1, "time") /\ UniqueCol(d1, "time")
                  THEN {[d1 EXCEPT !.rows = [i \in 1..NRows(d1) |-> d1.rows[p[i]]]] :
                            p \in sort_orders(Series(d1, "time"))}
                  ELSE {d1}
        convert(d2) ==
            [d2 EXCEPT !.rows =
                [i \in 1..NRows(d2) |->
                    [j \in 1..NCols(d2) |->
                        IF d2.columns[j] \in numeric_columns
                        THEN to_numeric(d2.rows[i][j]) ELSE d2.rows[i][j]]]]
    IN  IF HasCol(d1, "time") /\ ~UniqueCol(d1, "time")
        THEN {Raise("ValueError")}     \* the column label 'time' is not unique
        ELSE IF \E c \in numeric_columns : HasCol(d1, c) /\ ~UniqueCol(d1, c)
        THEN {Raise("TypeError")}      \* to_numeric of a DataFrame
        ELSE {Return(convert(d2)) : d2 \in sorted}

-----------------------------------------------------------------------------
(* _analyze_laps *)

\* a lap_number that counts the markers seen before the row only
RECURSIVE CumCountBefore(_, _)
CumCountBefore(s, i) ==
    IF i <= 1 THEN 0
    ELSE CumCountBefore(s, i - 1) + (IF notna(s[i - 1]) THEN 1 ELSE 0)

lap_number_column_before(d) ==
    LET s == Series(d, "lap_time")
    IN  [i \in 1..NRows(d) |-> CumCountBefore(s, i)]

\* df['lap_time'].notna().cumsum()
RECURSIVE CumCount(_, _)
CumCount(s, i) ==
    IF i = 0 THEN 0 ELSE CumCount(s, i - 1) + (IF notna(s[i]) THEN 1 ELSE 0)

lap_number_column(d) ==
    LET s == Series(d, "lap_time")
    IN  [i \in 1..NRows(d) |-> CumCount(s, i)]

\* df[df['lap_number'] == lap_num]: the row indices of the group, ascending
lap_rows(ln, lap_num) ==
    SelectIdx([i \in 1..Len(ln) |-> ln[i] = lap_num], 1, Len(ln))

\* sqrt(g_force_x**2 + g_force_y**2) is kept squared: sqrt is monotone, so
\* the row that holds the peak is the same
g_combined(d, rws) ==
    LET gx == Series(d, "g_force_x")
        gy == Series(d, "g_force_y")
    IN  [n \in 1..Len(rws) |->
            IF gx[rws[n]].k = "num" /\ gy[rws[n]].k = "num"
            THEN Num(gx[rws[n]].v * gx[rws[n]].v + gy[rws[n]].v * gy[rws[n]].v)
            ELSE NaN]

\* the body of the loop "for lap_num in df['lap_number'].unique()", for laps
\* 1..n, carrying fastest_lap_time and fastest_lap_number
RECURSIVE lap_loop(_, _, _)
lap_loop(d, ln, n) ==
    IF n = 0
    THEN [laps |-> <<>>, fastest_lap_time |-> Inf, fastest_lap_number |-> 0]
    ELSE
      LET prev == lap_loop(d, ln, n - 1)
          rws == lap_rows(ln, n)
          lt == Series(d, "lap_time")
          lap_time == lt[rws[Len(rws)]]             \* .iloc[-1]
          speed == [m \in 1..Len(rws) |-> Series(d, "speed")[rws[m]]]
          max_speed == IF HasCol(d, "speed") THEN series_max(speed) ELSE Num(0)
          avg_speed == IF HasCol(d, "speed") THEN series_mean(speed) ELSE Zero
          max_g == IF HasCol(d, "g_force_x") /\ HasCol(d, "g_force_y")
                   THEN series_max(g_combined(d, rws)) ELSE Num(0)
          faster == Gt(lap_time, Num(0)) /\ Lt(lap_time, prev.fastest_lap_time)
          lap == [lap_number |-> n,
                  lap_time |-> lap_time,
                  max_speed |-> NumOrZero(max_speed),
                  avg_speed |-> FracOrZero(avg_speed),
                  max_g_force |-> NumOrZero(max_g),
                  is_fastest |-> faster]
      IN  [laps |-> Append(prev.laps, lap),
           fastest_lap_time |-> IF faster THEN lap_time ELSE prev.fastest_lap_time,
           fastest_lap_number |-> IF faster THEN n ELSE prev.fastest_lap_number]

\* "for lap in lap_analysis: if lap.lap_number == fastest_lap_number:
\*  lap.is_fastest = True"
update_fastest_flag(laps, fastest_lap_number) ==
    [i \in 1..Len(laps) |->
        IF laps[i].lap_number = fastest_lap_number
        THEN [laps[i] EXCEPT !.is_fastest = TRUE]
        ELSE laps[i]]

\* returns the lap list and the DataFrame, which the call changes in place
analyze_laps(d) ==
    IF ~HasCol(d, "lap_time") \/ \A i \in 1..NRows(d) : isna(Series(d, "lap_time")[i])
    THEN [laps |-> <<>>, df |-> d]
    ELSE
      LET ln == lap_number_column(d)
          d2 == SetColumn(d, "lap_number", [i \in 1..NRows(d) |-> Num(ln[i])])
          k == ln[NRows(d)]
          loop == lap_loop(d2, ln, k)
      IN  [laps |-> update_fastest_flag(loop.laps, loop.fastest_lap_number),
           df |-> d2]

-----------------------------------------------------------------------------
(* _calculate_performance_metrics *)

RECURSIVE InsertSorted(_, _)
InsertSorted(s, x) ==
    IF s = <<>> THEN <<x>>
    ELSE IF x <= Head(s) THEN <<x>> \o s
    ELSE <<Head(s)>> \o InsertSorted(Tail(s), x)

RECURSIVE sorted_values(_)
sorted_values(s) == IF s = <<>> THEN <<>> ELSE InsertSorted(sorted_values(Tail(s)), Head(s))

\* Series.quantile(0.7), linear interpolation between the order statistics
\* at position 0.7 * (n - 1); the result is returned in tenths
quantile70_tenths(s) ==
    LET v == sorted_values(Present(s))
        n == Len(v)
        pos10 == 7 * (n - 1)
        lo == (pos10 \div 10) + 1
        hi == IF lo < n THEN lo + 1 ELSE lo
        r == pos10 % 10
    IN  10 * v[lo] + r * (v[hi] - v[lo])

\* df[col].quantile(0.7) if df[col].notna().any() else 0
threshold_tenths(s) ==
    IF \E i \in 1..Len(s) : notna(s[i]) THEN quantile70_tenths(s) ELSE 0

\* len(df[df[col] > threshold])
count_above(s, t10) ==
    Cardinality({i \in 1..Len(s) : s[i].k = "num" /\ 10 * s[i].v > t10})

positive_lap_times(laps) ==
    LET idx == SelectIdx([i \in 1..Len(laps) |-> Gt(laps[i].lap_time, Num(0))],
                         1, Len(laps))
    IN  [n \in 1..Len(idx) |-> laps[idx[n]].lap_time.v]

\* the result is [exc, value]: exc names the exception raised, "none" if none
\* a variant that takes every lap with a lap time, positive or not
lap_time_metrics_all(laps) ==
    LET idx == SelectIdx([i \in 1..Len(laps) |-> laps[i].lap_time.k = "num"],
                         1, Len(laps))
        lap_times == [n \in 1..Len(idx) |-> laps[idx[n]].lap_time.v]
    IN  [fastest_lap |-> IF lap_times # <<>> THEN MinSeq(lap_times) ELSE 0,
         average_lap |-> IF lap_times # <<>>
                         THEN Frac(SumSeq(lap_times), Len(lap_times)) ELSE Zero]

\* "Lap time metrics"
lap_time_metrics(laps) ==
    LET lap_times == positive_lap_times(laps)
    IN  [fastest_lap |-> IF lap_times # <<>> THEN MinSeq(lap_times) ELSE 0,
         average_lap |-> IF lap_times # <<>>
                         THEN Frac(SumSeq(lap_times), Len(lap_times)) ELSE Zero]

calculate_performance_metrics(d, laps) ==
    LET fastest_lap == lap_time_metrics(laps).fastest_lap
        average_lap == lap_time_metrics(laps).average_lap
        max_speed == IF HasCol(d, "speed") THEN series_max(Series(d, "speed")) ELSE Num(0)
        avg_speed == IF HasCol(d, "speed") THEN series_mean(Series(d, "speed")) ELSE Zero
        rpm_max == IF HasCol(d, "rpm") THEN series_max(Series(d, "rpm")) ELSE Num(0)
        avg_rpm == IF HasCol(d, "rpm") THEN series_mean(Series(d, "rpm")) ELSE Zero
        max_g == IF HasCol(d, "g_force_x") /\ HasCol(d, "g_force_y")
                 THEN series_max(g_combined(d, [i \in 1..NRows(d) |-> i]))
                 ELSE Num(0)
        both == HasCol(d, "throttle") /\ HasCol(d, "brake")
        braking_points ==
            IF both
            THEN count_above(Series(d, "brake"), threshold_tenths(Series(d, "brake")))
            ELSE 0
        acceleration_zones ==
            IF both
            THEN count_above(Series(d, "throttle"),
                             threshold_tenths(Series(d, "throttle")))
            ELSE 0
    IN  IF isna(rpm_max)
        THEN [exc |-> "ValueError", value |-> <<>>]    \* int(nan)
        ELSE [exc |-> "none",
              value |-> [fastest_lap |-> fastest_lap,
                         average_lap |-> average_lap,
                         max_speed |-> NumOrZero(max_speed),
                         avg_speed |-> FracOrZero(avg_speed),
                         max_rpm |-> rpm_max.v,
                         avg_rpm |-> FracOrZero(avg_rpm),
                         max_g_force |-> NumOrZero(max_g),
                         braking_points |-> braking_points,
                         acceleration_zones |-> acceleration_zones]]

-----------------------------------------------------------------------------
(* validate_csv_file *)

\* df.empty
df_empty_never(d) == FALSE
df_empty(d) == NRows(d) = 0 \/ NCols(d) = 0

Issue(severity, message, column) ==
    [severity |-> severity, message |-> message, column |-> column]

\* df.isnull().sum() for column j
missing_count(d, j) == Cardinality({i \in 1..NRows(d) : isna(d.rows[i][j])})

\* a loop that also warns about a column exactly half missing
RECURSIVE missing_warnings_from_half(_, _)
missing_warnings_from_half(d, j) ==
    IF j > NCols(d) THEN <<>>
    ELSE (IF missing_count(d, j) * 100 >= 50 * NRows(d)
          THEN <<Issue("warning", "Column has missing values", <<d.columns[j]>>)>>
          ELSE <<>>) \o missing_warnings_from_half(d, j + 1)

\* the warnings of the loop over missing_percentages.items(), for columns
\* j..NCols: (missing / len(df)) * 100 > 50
RECURSIVE missing_warnings(_, _)
missing_warnings(d, j) ==
    IF j > NCols(d) THEN <<>>
    ELSE (IF missing_count(d, j) * 100 > 50 * NRows(d)
          THEN <<Issue("warning", "Column has missing values", <<d.columns[j]>>)>>
          ELSE <<>>) \o missing_warnings(d, j + 1)

\* df[col].duplicated().any(): a cell equal to an earlier one; two missing
\* cells are equal
has_duplicates(s) == \E i, j \in 1..Len(s) : i < j /\ s[i] = s[j]

count_severity(issues, sev) ==
    Cardinality({i \in 1..Len(issues) : issues[i].severity = sev})

\* "Estimate data quality", with the second threshold off by one
estimate_quality_ge3(error_count, warning_count) ==
    IF error_count > 0 THEN "Poor - Contains critical errors"
    ELSE IF warning_count >= 3 THEN "Fair - Multiple warnings present"
    ELSE IF warning_count > 0 THEN "Good - Minor issues detected"
    ELSE "Excellent - No issues found"

\* "Estimate data quality"
estimate_quality(error_count, warning_count) ==
    IF error_count > 0 THEN "Poor - Contains critical errors"
    ELSE IF warning_count > 3 THEN "Fair - Multiple warnings present"
    ELSE IF warning_count > 0 THEN "Good - Minor issues detected"
    ELSE "Excellent - No issues found"

required_parameters == <<"Time">>

validate_csv_file(c) ==
    LET r == read_csv_content(c)
        d == r.value
        empty_issue ==
            IF df_empty(d)
            THEN <<Issue("error", "File is empty or contains no data", <<>>)>>
            ELSE <<>>
        time_column == find_column_by_aliases(d.columns, parameter_aliases["time"])
        missing_columns == IF time_column = <<>> THEN <<"Time">> ELSE <<>>
        time_issue ==
            IF time_column = <<>>
            THEN <<Issue("error", "No time column found", <<>>)>>
            ELSE <<>>
        quality_issues ==
            IF ~df_empty(d)
            THEN missing_warnings(d, 1)
                 \o (IF time_column # <<>> /\ has_duplicates(Series(d, time_column[1]))
                     THEN <<Issue("warning", "Duplicate timestamps found", time_column)>>
                     ELSE <<>>)
            ELSE <<>>
        issues == empty_issue \o time_issue \o quality_issues
        error_count == count_severity(issues, "error")
        warning_count == count_severity(issues, "warning")
        recommendations ==
            IF issues = <<>>
            THEN <<"File structure looks good and ready for processing">>
            ELSE <<"Address the identified issues before processing">>
                 \o (IF missing_columns # <<>>
                     THEN <<"Ensure all required telemetry parameters are present">>
                     ELSE <<>>)
    IN  IF r.exc # "none"
        THEN [is_valid |-> FALSE,
              row_count |-> 0,
              column_count |-> 0,
              columns_found |-> <<>>,
              required_columns |-> required_parameters,
              missing_columns |-> required_parameters,
              issues |-> <<Issue("error", "Failed to read CSV file", <<>>)>>,
              recommendations |-> <<"Fix file format issues before reprocessing">>,
              estimated_quality |-> "Invalid - Cannot process"]
        ELSE [is_valid |-> error_count = 0,
              row_count |-> NRows(d),
              column_count |-> NCols(d),
              columns_found |-> d.columns,
              required_columns |-> required_parameters,
              missing_columns |-> missing_columns,
              issues |-> issues,
              recommendations |-> recommendations,
              estimated_quality |-> estimate_quality(error_count, warning_count)]

-----------------------------------------------------------------------------
(* compare_sessions *)

\* A dict is the sequence of its items [key, value] in insertion order;
\* storing under a key already present replaces the value in place.
dict_keys(dct) == [n \in 1..Len(dct) |-> dct[n].key]
dict_get(dct, k) == (CHOOSE n \in 1..Len(dct) : dct[n].key = k)
dict_value(dct, k) == dct[dict_get(dct, k)].value
dict_set(dct, k, v) ==
    IF \E n \in 1..Len(dct) : dct[n].key = k
    THEN [n \in 1..Len(dct) |-> IF dct[n].key = k THEN [key |-> k, value |-> v]
                                                  ELSE dct[n]]
    ELSE Append(dct, [key |-> k, value |-> v])

\* min(...) and max(...) of floats: the first item is kept until a later one
\* compares strictly below (above) it; the result is the index of the item
RECURSIVE py_min_idx(_, _)
py_min_idx(s, n) ==
    IF n = 1 THEN 1
    ELSE LET m == py_min_idx(s, n - 1) IN IF Lt(s[n], s[m]) THEN n ELSE m

RECURSIVE py_max_idx(_, _)
py_max_idx(s, n) ==
    IF n = 1 THEN 1
    ELSE LET m == py_max_idx(s, n - 1) IN IF Gt(s[n], s[m]) THEN n ELSE m

py_min(s) == s[py_min_idx(s, Len(s))]

\* ((a - b) / w) * 100 on floats: [exc, value], value a fraction
percent_of(a, b, w) ==
    IF w.k = "num" /\ w.v = 0 THEN Raise("ZeroDivisionError")
    ELSE IF a.k # "num" \/ b.k # "num" \/ w.k # "num" THEN Return(FracNaN)
    ELSE IF w.v > 0 THEN Return(Frac((a.v - b.v) * 100, w.v))
    ELSE Return(Frac((b.v - a.v) * 100, 0 - w.v))

\* f > n for a float f (False for NaN)
FracGt(f, n) == f.den > 0 /\ f.num > n * f.den

\* the loop "Compare lap times": lap_times after the first n sessions
RECURSIVE lap_times_dict(_, _)
lap_times_dict(sessions, n) ==
    IF n = 0 THEN <<>>
    ELSE LET prev == lap_times_dict(sessions, n - 1)
             laps == sessions[n].data.lap_analysis
         IN  IF laps # <<>>
             THEN dict_set(prev, sessions[n].filename,
                           py_min([i \in 1..Len(laps) |-> laps[i].lap_time]))
             ELSE prev

\* the loop "Compare speed metrics"
RECURSIVE speed_metrics_dict(_, _)
speed_metrics_dict(sessions, n) ==
    IF n = 0 THEN <<>>
    ELSE dict_set(speed_metrics_dict(sessions, n - 1), sessions[n].filename,
                  Num(sessions[n].data.performance_metrics.max_speed))

dict_values(dct) == [n \in 1..Len(dct) |-> dct[n].value]
min_key(dct) == dct[py_min_idx(dict_values(dct), Len(dct))].key
max_key(dct) == dct[py_max_idx(dict_values(dct), Len(dct))].key

ComparisonMetrics(parameter, values, best, worst, improvement) ==
    [parameter |-> parameter,
     session_values |-> values,
     best_performance |-> best,
     worst_performance |-> worst,
     improvement_potential |-> improvement]

\* recommendations that are also given at the thresholds themselves
RECURSIVE metric_recommendations_from(_, _)
metric_recommendations_from(metrics, n) ==
    IF n = 0 THEN <<>>
    ELSE metric_recommendations_from(metrics, n - 1)
         \o (IF metrics[n].parameter = "Fastest Lap Time"
                /\ metrics[n].improvement_potential.num
                      >= 1 * metrics[n].improvement_potential.den
             THEN <<"Lap time can be improved">> ELSE <<>>)
         \o (IF metrics[n].parameter = "Maximum Speed"
                /\ metrics[n].improvement_potential.num
                      >= 5 * metrics[n].improvement_potential.den
             THEN <<"Top speed can be increased">> ELSE <<>>)

\* _generate_comparison_recommendations
RECURSIVE metric_recommendations(_, _)
metric_recommendations(metrics, n) ==
    IF n = 0 THEN <<>>
    ELSE metric_recommendations(metrics, n - 1)
         \o (IF metrics[n].parameter = "Fastest Lap Time"
                /\ FracGt(metrics[n].improvement_potential, 1)
             THEN <<"Lap time can be improved">> ELSE <<>>)
         \o (IF metrics[n].parameter = "Maximum Speed"
                /\ FracGt(metrics[n].improvement_potential, 5)
             THEN <<"Top speed can be increased">> ELSE <<>>)

generate_comparison_recommendations(metrics) ==
    LET recommendations == metric_recommendations(metrics, Len(metrics))
    IN  IF recommendations = <<>>
        THEN <<"Performance is consistent across sessions">>
        ELSE recommendations

\* _prepare_comparison_charts: lap_times of the chart 'lap_time_comparison'
RECURSIVE chart_lap_times(_, _)
chart_lap_times(sessions, n) ==
    IF n = 0 THEN <<>>
    ELSE LET prev == chart_lap_times(sessions, n - 1)
             laps == sessions[n].data.lap_analysis
         IN  IF laps # <<>>
             THEN dict_set(prev, sessions[n].filename, positive_lap_times(laps))
             ELSE prev

compare_sessions(sessions) ==
    LET session_names == [n \in 1..Len(sessions) |-> sessions[n].filename]
        lap_times == lap_times_dict(sessions, Len(sessions))
        best_session == min_key(lap_times)
        worst_session == max_key(lap_times)
        improvement == percent_of(dict_value(lap_times, worst_session),
                                  dict_value(lap_times, best_session),
                                  dict_value(lap_times, worst_session))
        lap_metric ==
            IF lap_times # <<>>
            THEN <<ComparisonMetrics("Fastest Lap Time", lap_times, best_session,
                                     worst_session, improvement.value)>>
            ELSE <<>>
        speed_metrics == speed_metrics_dict(sessions, Len(sessions))
        best_speed_session == max_key(speed_metrics)
        worst_speed_session == min_key(speed_metrics)
        speed_improvement ==
            percent_of(dict_value(speed_metrics, best_speed_session),
                       dict_value(speed_metrics, worst_speed_session),
                       dict_value(speed_metrics, worst_speed_session))
        speed_metric ==
            IF speed_metrics # <<>>
            THEN <<ComparisonMetrics("Maximum Speed", speed_metrics,
                                     best_speed_session, worst_speed_session,
                                     speed_improvement.value)>>
            ELSE <<>>
        comparison_metrics == lap_metric \o speed_metric
    IN  IF lap_times # <<>> /\ improvement.exc # "none"
        THEN Raise(improvement.exc)
        ELSE IF speed_metrics # <<>> /\ speed_improvement.exc # "none"
        THEN Raise(speed_improvement.exc)
        ELSE Return([session_names |-> session_names,
                     comparison_metrics |-> comparison_metrics,
                     fastest_overall |-> IF lap_times # <<>> THEN min_key(lap_times)
                                         ELSE "Unknown",
                     recommendations |->
                         generate_comparison_recommendations(comparison_metrics),
                     comparison_charts |->
                         chart_lap_times(sessions, Len(sessions))])

-----------------------------------------------------------------------------
(* _generate_insights *)

RECURSIVE SumSquares(_)
SumSquares(s) == IF s = <<>> THEN 0 ELSE Head(s) * Head(s) + SumSquares(Tail(s))

\* f < n for a float f (False for NaN)
FracLt(f, n) == f.den > 0 /\ f.num < n * f.den

\* (np.std(lap_times) / np.mean(lap_times)) * 100 if lap_avg > 0 else 0,
\* kept squared: with n values of sum S and sum of squares Q the population
\* variance is (n*Q - S*S) / n^2 and the mean S / n
consistency_squared(lap_times) ==
    LET n == Len(lap_times)
        S == SumSeq(lap_times)
        Q == SumSquares(lap_times)
    IN  IF S > 0 THEN Frac(10000 * (n * Q - S * S), S * S) ELSE Zero

\* "Excellent" if consistency < 2 else "Good" if consistency < 5 else ...
consistency_rating(c2) ==
    IF FracLt(c2, 4) THEN "Excellent"
    ELSE IF FracLt(c2, 25) THEN "Good"
    ELSE "Needs Improvement"

\* "Analyze lap consistency": the entry of performance_summary and the
\* recommendation
lap_consistency(laps) ==
    LET lap_times == positive_lap_times(laps)
        consistency == consistency_squared(lap_times)
    IN  IF laps # <<>> /\ Len(lap_times) > 1
        THEN [summary |->
                <<[key |-> "lap_consistency",
                   value |-> [coefficient_of_variation_squared |-> consistency,
                              rating |-> consistency_rating(consistency)]]>>,
              recommendations |->
                IF FracGt(consistency, 25)
                THEN <<"Focus on lap time consistency">> ELSE <<>>]
        ELSE [summary |-> <<>>, recommendations |-> <<>>]

\* Series.var(): the sample variance, NaN for a single value
series_var(v) ==
    LET n == Len(v)
    IN  IF n < 2 THEN FracNaN
        ELSE Frac(n * SumSquares(v) - SumSeq(v) * SumSeq(v), n * (n - 1))

\* "Speed analysis"
speed_management(d) ==
    LET speed_data == Present(Series(d, "speed"))
        speed_variance == series_var(speed_data)
    IN  IF HasCol(d, "speed") /\ speed_data # <<>>
        THEN [summary |->
                <<[key |-> "speed_management",
                   value |-> [max_speed |-> MaxSeq(speed_data),
                              average_speed |-> Frac(SumSeq(speed_data),
                                                     Len(speed_data)),
                              speed_variance |-> speed_variance]]>>,
              recommendations |->
                IF FracGt(speed_variance, 100)
                THEN <<"Work on smoother speed transitions through corners">>
                ELSE <<>>]
        ELSE [summary |-> <<>>, recommendations |-> <<>>]

\* "G-force analysis": max_g is kept squared, so max_g < 1.5 reads
\* 4 * max_g^2 < 9 and max_g > 3.0 reads max_g^2 > 9
g_force_analysis(d) ==
    LET g_data == Present(g_combined(d, [i \in 1..NRows(d) |-> i]))
        max_g_squared == MaxSeq(g_data)
    IN  IF HasCol(d, "g_force_x") /\ HasCol(d, "g_force_y") /\ g_data # <<>>
        THEN [key_findings |-> <<"Maximum G-force recorded">>,
              recommendations |->
                IF 4 * max_g_squared < 9
                THEN <<"Consider pushing harder in corners to maximize grip">>
                ELSE IF max_g_squared > 9
                THEN <<"Monitor tire wear - high G-forces detected">>
                ELSE <<>>]
        ELSE [key_findings |-> <<>>, recommendations |-> <<>>]

generate_insights(d, laps) ==
    [performance_summary |-> lap_consistency(laps).summary
                             \o speed_management(d).summary,
     recommendations |-> lap_consistency(laps).recommendations
                         \o speed_management(d).recommendations
                         \o g_force_analysis(d).recommendations,
     key_findings |-> g_force_analysis(d).key_findings]

-----------------------------------------------------------------------------

(* The steps of process_csv_data.  pc names the step the call is about to  *)
(* take; "done" and "failed" end it.                                       *)

NoTable == [columns |-> <<>>, rows |-> <<>>]
NoContent == [decode |-> <<>>, table |-> NoTable, tables |-> <<>>]
NoEncoding == ""
NoTies == ""
NoFile == [name |-> "", driver |-> <<>>, keywords |-> {}]
NoMetadata == [exc |-> "unset", value |-> <<>>]
NoMetrics == [exc |-> "unset", value |-> <<>>]
NoReport == [exc |-> "unset", value |-> <<>>]
NoInsights == [exc |-> "unset", value |-> <<>>]

ReadCsvContent ==
    /\ pc = "read"
    /\ LET r == read_csv_content(content)
       IN  /\ df' = IF r.exc = "none" THEN r.value ELSE df
           /\ pc' = IF r.exc = "none" THEN "normalize" ELSE "failed"
    /\ encoding' = encodings[last_tried(content, 1)]
    /\ UNCHANGED <<metric_list, recommendation_list, insights, calls, argsort_ties, content, filename, metadata, lap_analysis,
                   performance_metrics, report, session_data, comparison>>

NormalizeColumnNames ==
    /\ pc = "normalize"
    /\ df' = normalize_column_names(df)
    /\ pc' = "metadata"
    /\ UNCHANGED <<metric_list, recommendation_list, insights, calls, argsort_ties, content, encoding, filename, metadata, lap_analysis,
                   performance_metrics, report, session_data, comparison>>

ExtractMetadata ==
    /\ pc = "metadata"
    /\ metadata' = extract_metadata(df, filename)
    /\ pc' = IF metadata'.exc = "none" THEN "clean" ELSE "failed"
    /\ UNCHANGED <<metric_list, recommendation_list, insights, calls, argsort_ties, content, encoding, filename, df, lap_analysis,
                   performance_metrics, report, session_data, comparison>>

CleanData ==
    /\ pc = "clean"
    /\ \E r \in clean_data(df) :
          /\ df' = IF r.exc = "none" THEN r.value ELSE df
          /\ pc' = IF r.exc = "none" THEN "laps" ELSE "failed"
    /\ UNCHANGED <<metric_list, recommendation_list, insights, calls, argsort_ties, content, encoding, filename, metadata, lap_analysis,
                   performance_metrics, report, session_data, comparison>>

AnalyzeLaps ==
    /\ pc = "laps"
    /\ lap_analysis' = analyze_laps(df).laps
    /\ df' = analyze_laps(df).df
    /\ pc' = "metrics"
    /\ UNCHANGED <<metric_list, recommendation_list, insights, calls, argsort_ties, content, encoding, filename, metadata, performance_metrics, report,
                   session_data, comparison>>

CalculatePerformanceMetrics ==
    /\ pc = "metrics"
    /\ performance_metrics' = calculate_performance_metrics(df, lap_analysis)
    /\ pc' = IF performance_metrics'.exc = "none" THEN "done" ELSE "failed"
    /\ UNCHANGED <<metric_list, recommendation_list, insights, calls, argsort_ties, content, encoding, filename, df, metadata, lap_analysis, report,
                   session_data, comparison>>

ValidateCsvFile ==
    /\ pc = "validate"
    /\ report' = validate_csv_file(content)
    /\ encoding' = encodings[last_tried(content, 1)]
    /\ pc' = "done"
    /\ UNCHANGED <<metric_list, recommendation_list, insights, calls, argsort_ties, content, filename, df, metadata, lap_analysis,
                   performance_metrics, session_data, comparison>>

CompareSessions ==
    /\ pc = "compare"
    /\ comparison' = compare_sessions(session_data)
    /\ pc' = IF comparison'.exc = "none" THEN "done" ELSE "failed"
    /\ UNCHANGED <<metric_list, recommendation_list, insights, calls, argsort_ties, content, encoding, filename, df, metadata, lap_analysis,
                   performance_metrics, report, session_data>>

-----------------------------------------------------------------------------
(* The step "Generate insights" of analyze_telemetry_data *)

GenerateInsights ==
    /\ pc = "insights"
    /\ insights' = Return(generate_insights(df, lap_analysis))
    /\ pc' = "done"
    /\ UNCHANGED <<metric_list, recommendation_list, calls, argsort_ties, content, encoding,
                   filename, df, metadata, lap_analysis, performance_metrics,
                   report, session_data, comparison>>

-----------------------------------------------------------------------------

(* A call of _generate_comparison_recommendations *)

GenerateComparisonRecommendations ==
    /\ pc = "recommend"
    /\ recommendation_list' = generate_comparison_recommendations(metric_list)
    /\ pc' = "done"
    /\ UNCHANGED <<metric_list, insights, calls, argsort_ties, content, encoding,
                   filename, df, metadata, lap_analysis, performance_metrics,
                   report, session_data, comparison>>

-----------------------------------------------------------------------------

(* Uploads *)

\* pd.read_csv gives every column one dtype: a column is numeric (numbers
\* and missing cells), or it is text, with at least one cell that is not a
\* number, and then its numbers are text too
NumCells == {NaN, Num(1), Num(2)}
TextCells == {NaN, Txt(1), Str(1)}

Cells == NumCells \cup TextCells

ColumnTyped(rows, j) ==
    \/ \A i \in 1..Len(rows) : rows[i][j] \in NumCells
    \/ /\ \A i \in 1..Len(rows) : rows[i][j] \in TextCells
       /\ \E i \in 1..Len(rows) : rows[i][j].k = "str"

WellTyped(headers, rows) == \A j \in 1..Len(headers) : ColumnTyped(rows, j)

\* the data rows of the tables with the given header row and n data rows
RowsOf(headers, n, cells) == [1..n -> [1..Len(headers) -> cells]]

Table(headers, rows) == [columns |-> headers, rows |-> rows]

\* bytes that decode as UTF-8; bytes that do not and are read as Latin-1
Decodable == {<<"ok", "ok", "ok">>, <<"UnicodeDecodeError", "ok", "ok">>}
\* bytes no encoding parses, such as the empty file
Unparseable == <<"ParserError", "ParserError", "ParserError">>

Content(dec, table) ==
    [decode |-> dec, table |-> table, tables |-> [n \in 1..Len(encodings) |-> table]]

FileNames ==
    {[name |-> "Ann Round 3 Race.csv", driver |-> <<"Ann">>, keywords |-> {"race"}],
     [name |-> "practice_race.csv", driver |-> <<>>,
      keywords |-> {"practice", "race"}]}

\* pd.read_csv keeps the headers of a file distinct
PipelineHeaders ==
    {<<"Time">>, <<"Time", "Speed">>, <<"Speed", "speed">>, <<"Velocity", "Speed">>,
     <<"Time", "Latitude">>, <<"Time", "Lap Time">>, <<"Time", "time">>,
     <<"RPM", "Lap Time">>, <<"Rpm", "lap time">>, <<"GEAR", "Time">>,
     <<"Time", "lap_time">>, <<"Lap Time", "Temp">>,
     <<"Brake">>, <<"Brake", "Throttle">>}

Init ==
    /\ pc = "read"
    /\ calls = <<>>
    /\ argsort_ties = NoTies
    /\ encoding = NoEncoding
    /\ \/ content = Content(Unparseable, NoTable)
       \/ \E h \in PipelineHeaders, n \in 0..MaxRows :
             \E r \in RowsOf(h, n, Cells), dec \in Decodable :
                /\ WellTyped(h, r)
                /\ content = Content(dec, Table(h, r))
    /\ filename \in FileNames
    /\ df = NoTable
    /\ metadata = NoMetadata
    /\ lap_analysis = <<>>
    /\ performance_metrics = NoMetrics
    /\ report = NoReport
    /\ session_data = <<>>
    /\ comparison = NoReport
    /\ insights = NoInsights
    /\ metric_list = <<>>
    /\ recommendation_list = <<>>

Next ==
    \/ ReadCsvContent
    \/ NormalizeColumnNames
    \/ ExtractMetadata
    \/ CleanData
    \/ AnalyzeLaps
    \/ CalculatePerformanceMetrics

Spec == Init /\ [][Next]_vars

\* the dict process_csv_data returns (processing_time is the wall clock and
\* is left out)
process_result ==
    [metadata |-> metadata.value,
     data_points |-> NRows(df),
     parameters_found |-> df.columns,
     lap_analysis |-> lap_analysis,
     performance_metrics |-> performance_metrics.value]

\* positions of process_csv_data after the named step has returned
Normalized == pc \in {"metadata", "clean", "laps", "metrics", "done"}
Cleaned == pc \in {"laps", "metrics", "done"}

-----------------------------------------------------------------------------
(* Validation of an upload *)

\* header rows of tables with numeric columns only
ValidateHeaders ==
    {<<"Time">>, <<"Temp">>, <<"Speed", "RPM">>, <<"timestamp", "Time">>,
     <<"Time", "Speed", "RPM">>}
\* header rows of tables whose columns may be text
ValidateTextHeaders == {<<"Time">>, <<"Speed", "timestamp">>}

InitValidate ==
    /\ pc = "validate"
    /\ calls = <<>>
    /\ argsort_ties = NoTies
    /\ encoding = NoEncoding
    /\ \/ content = Content(Unparseable, NoTable)
       \/ \E h \in ValidateTextHeaders, n \in 0..MaxRows :
             \E r \in RowsOf(h, n, Cells), dec \in Decodable :
                /\ WellTyped(h, r)
                /\ content = Content(dec, Table(h, r))
       \/ \E h \in ValidateHeaders, n \in 0..MaxRows :
             \E r \in RowsOf(h, n, NumCells), dec \in Decodable :
                content = Content(dec, Table(h, r))
    /\ filename \in FileNames
    /\ df = NoTable
    /\ metadata = NoMetadata
    /\ lap_analysis = <<>>
    /\ performance_metrics = NoMetrics
    /\ report = NoReport
    /\ session_data = <<>>
    /\ comparison = NoReport
    /\ insights = NoInsights
    /\ metric_list = <<>>
    /\ recommendation_list = <<>>

NextValidate == ValidateCsvFile

SpecValidate == InitValidate /\ [][NextValidate]_vars

-----------------------------------------------------------------------------
(* Decoding of an upload whose bytes read differently in each encoding *)

\* what an encoding does with the bytes; latin-1 maps every byte, so it
\* never raises UnicodeDecodeError
Outcomes(n) ==
    IF encodings[n] = "latin-1" THEN {"ok", "ParserError"}
    ELSE {"ok", "UnicodeDecodeError", "ParserError"}

\* the tables parsed from the decoded text: a header outside ASCII is a
\* different string in each encoding
ReadHeaders == {<<"Time">>, <<"Cote">>, <<"CotA(c)">>}
ReadTables ==
    {Table(h, r) : h \in ReadHeaders, r \in {<<>>, <<<<Num(1)>>>>}}

InitRead ==
    /\ pc = "read"
    /\ calls = <<>>
    /\ argsort_ties = NoTies
    /\ encoding = NoEncoding
    /\ \E dec \in [1..Len(encodings) -> {"ok", "UnicodeDecodeError", "ParserError"}],
          ts \in [1..Len(encodings) -> ReadTables \cup {NoTable}] :
          /\ \A n \in 1..Len(encodings) :
                /\ dec[n] \in Outcomes(n)
                /\ (dec[n] = "ok") = (ts[n] # NoTable)
          /\ content = [decode |-> dec, table |-> ts[1], tables |-> ts]
    /\ filename \in FileNames
    /\ df = NoTable
    /\ metadata = NoMetadata
    /\ lap_analysis = <<>>
    /\ performance_metrics = NoMetrics
    /\ report = NoReport
    /\ session_data = <<>>
    /\ comparison = NoReport
    /\ insights = NoInsights
    /\ metric_list = <<>>
    /\ recommendation_list = <<>>

NextRead == ReadCsvContent

SpecRead == InitRead /\ [][NextRead]_vars

-----------------------------------------------------------------------------
(* Calls interleaved on the one TelemetryProcessor of the router.  Every   *)
(* call keeps its content, filename, df and results in its own locals; the *)
(* instance holds the alias lists, which no call writes.                   *)

MaxCalls == 2

\* equal keys come out of the argsort in their input order or reversed,
\* the same way in every call
TieRules == {"kept", "reversed"}

\* for col in numeric_columns: df[col] = pd.to_numeric(df[col], errors='coerce')
coerce_columns(d) ==
    [d EXCEPT !.rows =
        [i \in 1..NRows(d) |->
            [j \in 1..NCols(d) |->
                IF d.columns[j] \in numeric_columns
                THEN to_numeric(d.rows[i][j]) ELSE d.rows[i][j]]]]

\* the order df.sort_values('time') gives the rows under a tie rule
sort_order(s, ties) ==
    CHOOSE p \in sort_orders(s) :
        \A i, j \in 1..Len(s) :
            (i < j /\ notna(s[p[i]]) /\ ~KeyLt(s[p[i]], s[p[j]])
                   /\ notna(s[p[j]])) =>
                IF ties = "kept" THEN p[i] < p[j] ELSE p[i] > p[j]

\* _clean_data under a tie rule
clean_data_as(d, ties) ==
    LET d1 == dropna_all(d)
        p == sort_order(Series(d1, "time"), ties)
    IN  IF \E r \in clean_data(d) : r.exc # "none"
        THEN CHOOSE r \in clean_data(d) : r.exc # "none"
        ELSE IF HasCol(d1, "time")
        THEN Return(coerce_columns(
                 [d1 EXCEPT !.rows = [i \in 1..NRows(d1) |-> d1.rows[p[i]]]]))
        ELSE Return(coerce_columns(d1))

\* the locals of a call that has not taken a step
NewCall(op, c, f) ==
    [op |-> op,
     pc |-> IF op = "process" THEN "read" ELSE "validate",
     content |-> c, filename |-> f, encoding |-> NoEncoding, df |-> NoTable,
     metadata |-> NoMetadata, lap_analysis |-> <<>>,
     performance_metrics |-> NoMetrics, report |-> NoReport]

\* one step of process_csv_data or validate_csv_file on the locals st
process_step(st, ties) ==
    CASE st.pc = "read" ->
           LET r == read_csv_content(st.content)
           IN  [st EXCEPT !.df = IF r.exc = "none" THEN r.value ELSE @,
                          !.encoding = encodings[last_tried(st.content, 1)],
                          !.pc = IF r.exc = "none" THEN "normalize" ELSE "failed"]
      [] st.pc = "normalize" ->
           [st EXCEPT !.df = normalize_column_names(@), !.pc = "metadata"]
      [] st.pc = "metadata" ->
           LET m == extract_metadata(st.df, st.filename)
           IN  [st EXCEPT !.metadata = m,
                          !.pc = IF m.exc = "none" THEN "clean" ELSE "failed"]
      [] st.pc = "clean" ->
           LET r == clean_data_as(st.df, ties)
           IN  [st EXCEPT !.df = IF r.exc = "none" THEN r.value ELSE @,
                          !.pc = IF r.exc = "none" THEN "laps" ELSE "failed"]
      [] st.pc = "laps" ->
           [st EXCEPT !.lap_analysis = analyze_laps(st.df).laps,
                      !.df = analyze_laps(st.df).df,
                      !.pc = "metrics"]
      [] st.pc = "metrics" ->
           LET m == calculate_performance_metrics(st.df, st.lap_analysis)
           IN  [st EXCEPT !.performance_metrics = m,
                          !.pc = IF m.exc = "none" THEN "done" ELSE "failed"]
      [] st.pc = "validate" ->
           [st EXCEPT !.report = validate_csv_file(st.content),
                      !.encoding = encodings[last_tried(st.content, 1)],
                      !.pc = "done"]
      [] OTHER -> st

\* a step of call c that takes df from the call next to it, as it would
\* with the table kept in an attribute of the instance
call_step_on_shared_df(cs, c, ties) ==
    process_step([cs[c] EXCEPT !.df = cs[(c % Len(cs)) + 1].df], ties)

\* a step of call c: it reads and writes its own locals only
call_step(cs, c, ties) == process_step(cs[c], ties)

CallEnded(st) == st.pc \in {"done", "failed"}

CallStep(c) ==
    /\ ~CallEnded(calls[c])
    /\ calls' = [calls EXCEPT ![c] = call_step(calls, c, argsort_ties)]
    /\ UNCHANGED <<metric_list, recommendation_list, insights, argsort_ties, pc, content, encoding, filename, df, metadata,
                   lap_analysis, performance_metrics, report, session_data,
                   comparison>>

\* uploads with equal times, with a lap marker that ends a group, and one
\* that no encoding reads
CallTables ==
    {Table(<<"Time", "Lap Time">>, <<<<Num(1), Num(1)>>, <<Num(1), Num(2)>>>>),
     Table(<<"Time", "Lap Time">>, <<<<Num(2), NaN>>, <<Num(1), Num(1)>>>>)}
CallContents ==
    {Content(<<"ok", "ok", "ok">>, t) : t \in CallTables}
    \cup {Content(Unparseable, NoTable)}
CallOps == {"process", "validate"}

InitCalls ==
    /\ pc = "calls"
    /\ calls \in [1..MaxCalls ->
                    {NewCall(op, c, f) :
                        op \in CallOps, c \in CallContents, f \in FileNames}]
    /\ argsort_ties \in TieRules
    /\ content = NoContent
    /\ encoding = NoEncoding
    /\ filename = NoFile
    /\ df = NoTable
    /\ metadata = NoMetadata
    /\ lap_analysis = <<>>
    /\ performance_metrics = NoMetrics
    /\ report = NoReport
    /\ session_data = <<>>
    /\ comparison = NoReport
    /\ insights = NoInsights
    /\ metric_list = <<>>
    /\ recommendation_list = <<>>

NextCalls == \E c \in 1..Len(calls) : CallStep(c)

SpecCalls == InitCalls /\ [][NextCalls]_vars

-----------------------------------------------------------------------------
(* Comparison of processed sessions *)

\* the lap times of the lap lists of processed sessions; a lap whose group
\* ends on a row without lap_time carries NaN
SessionLapTimes ==
    {<<>>, <<Num(90)>>, <<Num(100)>>, <<Num(0)>>, <<NaN>>, <<Num(-10)>>,
     <<Num(-20)>>, <<Num(100), Num(90)>>, <<NaN, Num(90)>>, <<Num(90), NaN>>,
     <<Num(0), Num(90)>>}
SessionMaxSpeeds == {0, 100, 120}
SessionFiles == {"a.csv", "b.csv"}

\* the columns of the cleaned table of a session; without a speed column
\* max_speed is 0.0
SessionParameters == {<<"time">>, <<"time", "speed">>}

\* a session as compare_sessions reads it: the file name, the lap_time of
\* every lap and max_speed of the performance metrics
Sessions ==
    {[filename |-> f,
      data |-> [parameters_found |-> ps,
                lap_analysis |-> [i \in 1..Len(t) |-> [lap_time |-> t[i]]],
                performance_metrics |-> [max_speed |-> v]]] :
        f \in SessionFiles, t \in SessionLapTimes,
        ps \in SessionParameters,
        v \in {x \in SessionMaxSpeeds : x = 0}}
    \cup
    {[filename |-> f,
      data |-> [parameters_found |-> <<"time", "speed">>,
                lap_analysis |-> [i \in 1..Len(t) |-> [lap_time |-> t[i]]],
                performance_metrics |-> [max_speed |-> v]]] :
        f \in SessionFiles, t \in SessionLapTimes, v \in SessionMaxSpeeds}

InitCompare ==
    /\ pc = "compare"
    /\ calls = <<>>
    /\ argsort_ties = NoTies
    /\ encoding = NoEncoding
    /\ session_data \in UNION {[1..n -> Sessions] : n \in 2..MaxSessions}
    /\ content = NoContent
    /\ filename = NoFile
    /\ df = NoTable
    /\ metadata = NoMetadata
    /\ lap_analysis = <<>>
    /\ performance_metrics = NoMetrics
    /\ report = NoReport
    /\ comparison = NoReport
    /\ insights = NoInsights
    /\ metric_list = <<>>
    /\ recommendation_list = <<>>

NextCompare == CompareSessions

SpecCompare == InitCompare /\ [][NextCompare]_vars

-----------------------------------------------------------------------------
(* Recommendations on the metrics compare_sessions collects *)

\* improvement_potential in per cent: undefined, negative, zero, at and
\* around the thresholds 1 and 5
Improvements ==
    {FracNaN, Frac(-100, 1), Zero, Frac(1, 2), Frac(1, 1), Frac(3, 2),
     Frac(5, 1), Frac(11, 2), Frac(20, 1)}

\* the metrics of a parameter: the values of two sessions, the names of the
\* best and the worst and the improvement
MetricsOf(parameter) ==
    {ComparisonMetrics(parameter,
                       <<[key |-> "a.csv", value |-> Num(100)],
                         [key |-> "b.csv", value |-> Num(90)]>>,
                       best, worst, improvement) :
        best \in SessionFiles, worst \in SessionFiles, improvement \in Improvements}

InitRecommend ==
    /\ pc = "recommend"
    /\ calls = <<>>
    /\ argsort_ties = NoTies
    /\ encoding = NoEncoding
    \* comparison_metrics holds the lap time metric, if any, and then the
    \* speed metric, if any
    /\ \E lap \in {<<>>} \cup {<<m>> : m \in MetricsOf("Fastest Lap Time")},
          speed \in {<<>>} \cup {<<m>> : m \in MetricsOf("Maximum Speed")} :
          metric_list = lap \o speed
    /\ recommendation_list = <<>>
    /\ session_data = <<>>
    /\ content = NoContent
    /\ filename = NoFile
    /\ df = NoTable
    /\ metadata = NoMetadata
    /\ lap_analysis = <<>>
    /\ performance_metrics = NoMetrics
    /\ report = NoReport
    /\ comparison = NoReport
    /\ insights = NoInsights

NextRecommend == GenerateComparisonRecommendations

SpecRecommend == InitRecommend /\ [][NextRecommend]_vars

-----------------------------------------------------------------------------

(* Lap segmentation and metrics on a cleaned table *)

\* lap_time cells: missing, negative, zero and two distinct positive values
LapCells == {NaN, Num(-1), Num(0), Num(1), Num(2)}
MarkerCells == {NaN, Num(1)}

\* a cleaned table whose only column is lap_time
LapTable(col) == [columns |-> <<"lap_time">>,
                  rows |-> [i \in 1..Len(col) |-> <<col[i]>>]]

LapInputs ==
    UNION {[1..n -> LapCells] : n \in 0..MaxLapRows}
    \cup UNION {[1..n -> MarkerCells] : n \in 0..MaxSegRows}

InitLaps ==
    /\ pc = "laps"
    /\ calls = <<>>
    /\ argsort_ties = NoTies
    /\ encoding = NoEncoding
    /\ \E col \in LapInputs : df = LapTable(col)
    /\ content = NoContent
    /\ filename = NoFile
    /\ metadata = NoMetadata
    /\ lap_analysis = <<>>
    /\ performance_metrics = NoMetrics
    /\ report = NoReport
    /\ session_data = <<>>
    /\ comparison = NoReport
    /\ insights = NoInsights
    /\ metric_list = <<>>
    /\ recommendation_list = <<>>

NextLaps == AnalyzeLaps \/ CalculatePerformanceMetrics

SpecLaps == InitLaps /\ [][NextLaps]_vars

\* the lap list is final, and the table carries its lap_number column
Segmented == pc \in {"metrics", "done", "failed"}

-----------------------------------------------------------------------------
(* Insights on a cleaned table and the lap list process_csv_data gave *)

MaxInsightRows == 3  \* rows of a cleaned table handed to _generate_insights

\* lap_time cells: lap times 19 and 21 vary by exactly 5 per cent of their
\* mean, 49 and 51 by exactly 2 per cent
InsightLapCells ==
    {NaN, Num(0), Num(19), Num(20), Num(21), Num(40), Num(49), Num(51)}

\* cleaned tables with speed or g-force columns
InsightTables ==
    {Table(<<"speed">>, <<<<Num(10)>>, <<Num(40)>>>>),
     Table(<<"speed">>, <<<<Num(10)>>, <<Num(12)>>>>),
     Table(<<"speed">>, <<<<Num(10)>>, <<NaN>>>>),
     Table(<<"speed">>, <<<<NaN>>>>),
     Table(<<"lap_time", "speed">>, <<<<Num(20), Num(10)>>, <<Num(40), Num(90)>>>>),
     Table(<<"g_force_x", "g_force_y">>, <<<<Num(1), Num(1)>>>>),
     Table(<<"g_force_x", "g_force_y">>, <<<<Num(2), Num(1)>>>>),
     Table(<<"g_force_x", "g_force_y">>, <<<<Num(3), Num(1)>>, <<Num(1), NaN>>>>),
     Table(<<"g_force_x", "g_force_y">>, <<<<NaN, Num(1)>>>>)}

InitInsights ==
    /\ pc = "insights"
    /\ calls = <<>>
    /\ argsort_ties = NoTies
    /\ encoding = NoEncoding
    /\ \/ \E n \in 0..MaxInsightRows : \E col \in [1..n -> InsightLapCells] :
             df = LapTable(col)
       \/ df \in InsightTables
    /\ lap_analysis = analyze_laps(df).laps
    /\ content = NoContent
    /\ filename = NoFile
    /\ metadata = NoMetadata
    /\ performance_metrics = NoMetrics
    /\ report = NoReport
    /\ session_data = <<>>
    /\ comparison = NoReport
    /\ insights = NoInsights
    /\ metric_list = <<>>
    /\ recommendation_list = <<>>

NextInsights == GenerateInsights

SpecInsights == InitInsights /\ [][NextInsights]_vars

-----------------------------------------------------------------------------

(* Claims about lap segmentation and the lap time metrics (SpecLaps) *)

\* the rows of the table that carry a lap-completion marker, ascending
Markers == SelectIdx([i \in 1..NRows(df) |-> notna(Series(df, "lap_time")[i])],
                     1, NRows(df))
\* the rows of the table whose lap_number is n
RowsOfLap(n) == {i \in 1..NRows(df) : Series(df, "lap_number")[i] = Num(n)}
HasLaps == Segmented /\ HasCol(df, "lap_number")
PositiveLaps ==
    {i \in 1..Len(lap_analysis) : Gt(lap_analysis[i].lap_time, Num(0))}
FastestFlagged == {i \in 1..Len(lap_analysis) : lap_analysis[i].is_fastest}

\* C1: with markers at rows m1 < ... < mk the segmenter returns k laps
\* numbered 1..k, lap 1 covering the rows up to m1 and lap i the rows after
\* m(i-1) up to mi, so that each lap ends at its marker row.
C1_LapsEndAtMarkers ==
    HasLaps =>
        /\ Len(lap_analysis) = Len(Markers)
        /\ \A i \in 1..Len(lap_analysis) :
              /\ lap_analysis[i].lap_number = i
              /\ RowsOfLap(i) =
                    (IF i = 1 THEN 1 ELSE Markers[i - 1] + 1) .. Markers[i]

\* C2: exactly one lap is flagged is_fastest when some lap has a positive
\* lap_time, and none is flagged when no lap has one.
C2_ExactlyOneFastest ==
    Segmented =>
        IF PositiveLaps # {}
        THEN Cardinality(FastestFlagged) = 1
        ELSE FastestFlagged = {}

\* C3: the lap_time reported for a lap is the lap_time of the last row of
\* its group, that row is the marker row of the group, and so the reported
\* lap_time is never missing.
C3_LapTimeIsMarkerValue ==
    HasLaps =>
        \A i \in 1..Len(lap_analysis) :
            LET last == CHOOSE r \in RowsOfLap(i) : \A q \in RowsOfLap(i) : q <= r
            IN  /\ lap_analysis[i].lap_time = Series(df, "lap_time")[last]
                /\ notna(Series(df, "lap_time")[last])
                /\ notna(lap_analysis[i].lap_time)

RECURSIVE SumLapTimes(_)
SumLapTimes(S) ==
    IF S = {} THEN 0
    ELSE LET i == CHOOSE i \in S : TRUE
         IN  lap_analysis[i].lap_time.v + SumLapTimes(S \ {i})

\* C5: fastest_lap is the minimum lap_time among the laps with lap_time > 0
\* and average_lap their mean; both are 0.0 when there is no such lap.
C5_LapTimeMetrics ==
    pc = "done" =>
        LET m == performance_metrics.value
        IN  IF PositiveLaps = {}
            THEN m.fastest_lap = 0 /\ FracEq(m.average_lap, Zero)
            ELSE /\ \E i \in PositiveLaps : m.fastest_lap = lap_analysis[i].lap_time.v
                 /\ \A i \in PositiveLaps : m.fastest_lap <= lap_analysis[i].lap_time.v
                 /\ m.average_lap.den > 0
                 /\ m.average_lap.num * Cardinality(PositiveLaps)
                       = SumLapTimes(PositiveLaps) * m.average_lap.den

\* metrics computed from a lap list that mixes two different positive lap
\* times with a lap whose lap_time is zero, negative or missing
C5_Witness ==
    /\ pc = "done"
    /\ \E i, j \in PositiveLaps :
          lap_analysis[i].lap_time.v < lap_analysis[j].lap_time.v
    /\ \E i \in 1..Len(lap_analysis) : lap_analysis[i].lap_time.k = "num"
                                         /\ lap_analysis[i].lap_time.v <= 0
    /\ \E i \in 1..Len(lap_analysis) : isna(lap_analysis[i].lap_time)

-----------------------------------------------------------------------------
(* Claims about normalization and cleaning (Spec) *)

SourceColumns == content.table.columns
CanonicalFields == {CanonicalNames[n] : n \in 1..Len(CanonicalNames)}

\* C4: when some source header is an accepted spelling of a canonical field,
\* exactly one column carries the canonical name after normalization, and
\* at most one source column was relabeled to it.
C4_OneColumnPerCanonicalName ==
    pc = "metadata" =>
        \A f \in CanonicalFields :
            (\E j \in 1..Len(SourceColumns) : SourceColumns[j] \in parameter_aliases[f])
            => /\ Cardinality(ColIdx(df, f)) = 1
               /\ Cardinality({j \in ColIdx(df, f) : SourceColumns[j] # f}) <= 1

IsNumberOrMissing(c) == c.k \in {"num", "nan"}

-----------------------------------------------------------------------------
(* Claims about validation (SpecValidate) *)

Validated == pc = "done" /\ report # NoReport
DecodableContent == \E n \in 1..Len(encodings) : content.decode[n] = "ok"
\* the data rows of the upload: none when the bytes cannot be parsed
DataRows == IF DecodableContent THEN NRows(content.table) ELSE 0
TimeColumns ==
    {j \in 1..NCols(content.table) :
        content.table.columns[j] \in parameter_aliases["time"]}
\* the time column of the upload: the first column under a time alias
TimeColumn == CHOOSE j \in TimeColumns : \A m \in TimeColumns : j <= m
NoColumnMostlyMissing ==
    \A j \in 1..NCols(content.table) :
        2 * Cardinality({i \in 1..DataRows : isna(content.table.rows[i][j])})
            <= DataRows
\* no two rows hold the same time cell (two missing cells are the same)
NoDuplicateTimes ==
    \A i, m \in 1..DataRows :
        i # m => content.table.rows[i][TimeColumn] # content.table.rows[m][TimeColumn]
Errors == {i \in 1..Len(report.issues) : report.issues[i].severity = "error"}
Warnings == {i \in 1..Len(report.issues) : report.issues[i].severity = "warning"}

\* C8: an upload with no data rows is reported invalid with an "Invalid" or
\* "Poor" label; a non-empty table with a time column, no column more than
\* half missing and no duplicate time value is reported valid, with no issue
\* and the "Excellent" label.
C8_EmptyIsInvalidCleanIsExcellent ==
    Validated =>
        /\ DataRows = 0 =>
              /\ ~report.is_valid
              /\ report.estimated_quality \in
                    {"Invalid - Cannot process", "Poor - Contains critical errors"}
        /\ (DataRows > 0 /\ TimeColumns # {} /\ NoColumnMostlyMissing /\ NoDuplicateTimes)
              => /\ report.is_valid
                 /\ report.issues = <<>>
                 /\ report.estimated_quality = "Excellent - No issues found"

\* a header-only upload that has a time column, reported "Poor"
C8_Witness ==
    /\ Validated
    /\ DecodableContent
    /\ DataRows = 0
    /\ TimeColumns # {}
    /\ report.estimated_quality = "Poor - Contains critical errors"

\* C9: for a decodable table the label depends on the issue counts only:
\* an error gives "Poor"; no error and more than 3 warnings "Fair"; no error
\* and 1 to 3 warnings "Good"; no issue "Excellent"; and is_valid is true
\* exactly when the label is not "Poor".
C9_QualityFromIssueCounts ==
    (Validated /\ DecodableContent) =>
        LET e == Cardinality(Errors)
            w == Cardinality(Warnings)
            q == report.estimated_quality
        IN  /\ e + w = Len(report.issues)
            /\ e > 0 => q = "Poor - Contains critical errors"
            /\ (e = 0 /\ w > 3) => q = "Fair - Multiple warnings present"
            /\ (e = 0 /\ w \in 1..3) => q = "Good - Minor issues detected"
            /\ (e = 0 /\ w = 0) => q = "Excellent - No issues found"
            /\ report.is_valid <=> q # "Poor - Contains critical errors"

\* a report of exactly 3 warnings and no error, labelled "Good"
C9_Witness ==
    /\ Validated
    /\ DecodableContent
    /\ Errors = {}
    /\ Cardinality(Warnings) = 3
    /\ report.estimated_quality = "Good - Minor issues detected"

\* a report of more than 3 warnings and no error
FairReported ==
    Validated /\ Errors = {} /\ Cardinality(Warnings) > 3

-----------------------------------------------------------------------------
(* Claims about the comparison of sessions (SpecCompare) *)

Compared == pc = "done" /\ comparison.exc = "none"
MetricsNamed(parameter) ==
    {n \in 1..Len(comparison.value.comparison_metrics) :
        comparison.value.comparison_metrics[n].parameter = parameter}
\* the lap times a session has: the lap_time values of its laps that are
\* numbers
LapValues(n) ==
    {session_data[n].data.lap_analysis[i].lap_time.v :
        i \in {m \in 1..Len(session_data[n].data.lap_analysis) :
                 session_data[n].data.lap_analysis[m].lap_time.k = "num"}}
WithLapValues == {n \in 1..Len(session_data) : LapValues(n) # {}}
\* the fastest-lap value of a session
FastestLapValue(n) == CHOOSE v \in LapValues(n) : \A u \in LapValues(n) : v <= u

\* C6: the "Fastest Lap Time" metric names as best_performance the session
\* with the smallest fastest-lap value, as worst_performance the session
\* with the largest, and improvement_potential = (worst - best) / worst * 100.
C6_FastestLapComparison ==
    Compared =>
        \A k \in MetricsNamed("Fastest Lap Time") :
            LET m == comparison.value.comparison_metrics[k]
            IN  \E b, w \in WithLapValues :
                    /\ session_data[b].filename = m.best_performance
                    /\ session_data[w].filename = m.worst_performance
                    /\ \A n \in WithLapValues :
                          /\ FastestLapValue(b) <= FastestLapValue(n)
                          /\ FastestLapValue(n) <= FastestLapValue(w)
                    /\ m.improvement_potential.den > 0
                    /\ m.improvement_potential.num * FastestLapValue(w)
                          = (FastestLapValue(w) - FastestLapValue(b)) * 100
                              * m.improvement_potential.den

\* C7: compare_sessions never fails with a division error; where the worst
\* value of a parameter is 0 the improvement_potential is left undefined or
\* the metric is omitted.
C7_NoDivisionByZero ==
    /\ comparison.exc # "ZeroDivisionError"
    /\ Compared =>
          \A k \in 1..Len(comparison.value.comparison_metrics) :
              LET m == comparison.value.comparison_metrics[k]
              IN  dict_value(m.session_values, m.worst_performance) = Num(0)
                      => m.improvement_potential = FracNaN

-----------------------------------------------------------------------------
(* Claims about cells that fail numeric coercion (Spec) *)

\* the uploaded table as the normalizer relabels it
NormalizedUpload == normalize_column_names(content.table)
DistinctLabels ==
    \A i, j \in 1..NCols(NormalizedUpload) :
        NormalizedUpload.columns[i] = NormalizedUpload.columns[j] => i = j
\* the coerced fields with a cell that is not a number: empty or text
GapFields ==
    {f \in numeric_columns :
        /\ HasCol(NormalizedUpload, f)
        /\ \E i \in 1..NRows(NormalizedUpload) :
              \A j \in ColIdx(NormalizedUpload, f) :
                  NormalizedUpload.rows[i][j].k # "num"}
\* the coerced fields in which no cell is a number or spells one
LostFields ==
    {f \in GapFields :
        \A i \in 1..NRows(NormalizedUpload) :
            \A j \in ColIdx(NormalizedUpload, f) :
                NormalizedUpload.rows[i][j].k \notin {"num", "txt"}}

\* C11: a cell that fails numeric coercion never makes process_csv_data
\* fail, also when every cell of a column such as rpm fails; the aggregates
\* of a field that lost every value are reported as 0.
C11_CoercionGapIsSilent ==
    (DecodableContent /\ DistinctLabels /\ GapFields # {}) =>
        /\ pc # "failed"
        /\ pc = "done" =>
              /\ "speed" \in LostFields =>
                    /\ performance_metrics.value.max_speed = 0
                    /\ performance_metrics.value.avg_speed = Zero
              /\ "rpm" \in LostFields =>
                    /\ performance_metrics.value.max_rpm = 0
                    /\ performance_metrics.value.avg_rpm = Zero

-----------------------------------------------------------------------------
(* Claims about the decoder (SpecRead) *)

EncodingIndex == CHOOSE n \in 1..Len(encodings) : encodings[n] = encoding
ReadReturned == pc = "normalize"
ReadFailed == pc = "failed"

\* C12: the encodings are tried in the order utf-8, latin-1, cp1252; the
\* table returned is the one of the first encoding that decodes and parses,
\* no later encoding is tried after it, and the call fails only when all
\* three encodings were tried and failed.
C12_FirstSuccessfulEncodingWins ==
    /\ encodings = <<"utf-8", "latin-1", "cp1252">>
    /\ ReadReturned =>
          /\ content.decode[EncodingIndex] = "ok"
          /\ \A m \in 1..(EncodingIndex - 1) : content.decode[m] # "ok"
          /\ df = content.tables[EncodingIndex]
    /\ ReadFailed =>
          /\ encoding = "cp1252"
          /\ \A m \in 1..Len(encodings) : content.decode[m] # "ok"

\* bytes that utf-8 cannot decode, read by latin-1 although cp1252 would
\* have read a different table
C12_Witness ==
    /\ ReadReturned
    /\ content.decode = <<"UnicodeDecodeError", "ok", "ok">>
    /\ content.tables[2] # content.tables[3]
    /\ encoding = "latin-1"

-----------------------------------------------------------------------------
(* Claims about alias matching (Spec) *)

AllAliases == UNION {parameter_aliases[f] : f \in CanonicalFields}
\* the source columns that differ from an alias only by case or whitespace
NearAliasColumns ==
    {j \in 1..Len(SourceColumns) :
        /\ SourceColumns[j] \notin AllAliases
        /\ AliasSpelling(SourceColumns[j]) \in AllAliases}

\* C13: a source header is renamed to a canonical name only if it is
\* literally one of the strings listed for that name; a header that differs
\* from every listed spelling only by case or whitespace is never renamed.
C13_AliasMatchIsExact ==
    Normalized =>
        \A j \in 1..Len(SourceColumns) :
            /\ df.columns[j] # SourceColumns[j] =>
                  /\ df.columns[j] \in CanonicalFields
                  /\ SourceColumns[j] \in parameter_aliases[df.columns[j]]
            /\ j \in NearAliasColumns => df.columns[j] = SourceColumns[j]

\* a normalized table with a header renamed next to one that differs from an
\* alias only by case
C13_Witness ==
    /\ pc = "metadata"
    /\ NearAliasColumns # {}
    /\ \E j \in 1..Len(SourceColumns) : df.columns[j] # SourceColumns[j]

-----------------------------------------------------------------------------
(* Claims about headers outside the alias lists (Spec) *)

UnlistedColumns == {j \in 1..Len(SourceColumns) : SourceColumns[j] \notin AllAliases}
ListedColumns == SelectIdx([j \in 1..Len(SourceColumns) |-> j \notin UnlistedColumns],
                           1, Len(SourceColumns))
\* the upload without its unlisted columns
ListedUpload ==
    [columns |-> [n \in 1..Len(ListedColumns) |-> SourceColumns[ListedColumns[n]]],
     rows |-> [i \in 1..NRows(content.table) |->
                 [n \in 1..Len(ListedColumns) |->
                     content.table.rows[i][ListedColumns[n]]]]]
\* the cell values a column holds, whatever the order of the rows
ColumnValues(d, j) == {d.rows[i][j] : i \in 1..NRows(d)}

\* C14: a header in none of the alias lists passes through normalization
\* unchanged, its values are not coerced, and the lap list and the
\* performance metrics are the ones of the upload without that column.
C14_UnlistedHeaderIsIgnored ==
    /\ Normalized =>
          \A j \in UnlistedColumns : df.columns[j] = SourceColumns[j]
    /\ Cleaned =>
          \A j \in UnlistedColumns :
              ColumnValues(df, j) \subseteq ColumnValues(content.table, j)
    /\ pc = "done" =>
          \E r \in clean_data(normalize_column_names(ListedUpload)) :
              /\ r.exc = "none"
              /\ lap_analysis = analyze_laps(r.value).laps
              /\ performance_metrics =
                    calculate_performance_metrics(analyze_laps(r.value).df,
                                                  lap_analysis)

-----------------------------------------------------------------------------
(* Claims about fastest_overall and omitted metrics (SpecCompare) *)

WithLapData == {n \in 1..Len(session_data) : session_data[n].data.lap_analysis # <<>>}
\* the first session, in input order, that holds the smallest fastest-lap
\* value
FirstFastest ==
    {b \in WithLapValues :
        /\ \A n \in WithLapValues : FastestLapValue(b) <= FastestLapValue(n)
        /\ \A n \in WithLapValues : FastestLapValue(n) = FastestLapValue(b) => b <= n}

\* C15: fastest_overall names the session with the smallest fastest-lap
\* value of all compared sessions, the first one in input order on ties,
\* and is "Unknown" exactly when no compared session has lap data.
C15_FastestOverall ==
    Compared =>
        /\ (comparison.value.fastest_overall = "Unknown") = (WithLapData = {})
        /\ WithLapValues # {} =>
              \E b \in FirstFastest :
                  comparison.value.fastest_overall = session_data[b].filename

WithSpeedData ==
    {n \in 1..Len(session_data) :
        \E j \in 1..Len(session_data[n].data.parameters_found) :
            session_data[n].data.parameters_found[j] = "speed"}

\* C16: when no session has any lap, or no session has any speed data,
\* compare_sessions returns normally and leaves the metric of that
\* parameter out of comparison_metrics.
C16_MetricWithoutDataIsOmitted ==
    (pc \in {"done", "failed"} /\ (WithLapData = {} \/ WithSpeedData = {})) =>
        /\ comparison.exc = "none"
        /\ WithLapData = {} => MetricsNamed("Fastest Lap Time") = {}
        /\ WithSpeedData = {} => MetricsNamed("Maximum Speed") = {}

-----------------------------------------------------------------------------
(* Claims about braking points and acceleration zones (Spec) *)

\* the rows of a field that strictly exceed the 70th percentile of its
\* present values
RowsAbovePercentile(field) ==
    count_above(Series(df, field), threshold_tenths(Series(df, field)))

\* C17: braking_points counts the rows whose brake exceeds the 70th
\* percentile of the present brake values, acceleration_zones does the same
\* for throttle, and each is computed whenever its own field is present.
C17_CountsDependOnOwnField ==
    (pc = "done" /\ performance_metrics.exc = "none") =>
        /\ HasCol(df, "brake") =>
              performance_metrics.value.braking_points = RowsAbovePercentile("brake")
        /\ HasCol(df, "throttle") =>
              performance_metrics.value.acceleration_zones
                  = RowsAbovePercentile("throttle")

-----------------------------------------------------------------------------
(* Claims about interleaved calls (SpecCalls) *)

\* the locals of a call run to its end with no other call in progress
RECURSIVE run_alone(_, _)
run_alone(st, ties) ==
    IF CallEnded(st) THEN st ELSE run_alone(process_step(st, ties), ties)

EndedCalls == {c \in 1..Len(calls) : CallEnded(calls[c])}

-----------------------------------------------------------------------------
(* Claims about the order of the cleaned rows (Spec) *)

\* the rows of the upload that are not missing in every field, with the
\* values the cleaner's coercion gives them
RemainingRows == coerce_columns(dropna_all(NormalizedUpload)).rows
TimeOf(row) == row[CHOOSE j \in ColIdx(df, "time") : TRUE]

\* C19: with a time column, the rows _clean_data returns are in
\* non-decreasing order of time, none of them is missing in every field,
\* they are a permutation of the remaining input rows, and rows with equal
\* time keep their input order.
C19_StableSortByTime ==
    (pc = "laps" /\ HasCol(df, "time")) =>
        /\ \A i, j \in 1..NRows(df) :
              i < j => ~KeyLt(TimeOf(df.rows[j]), TimeOf(df.rows[i]))
        /\ \A i \in 1..NRows(df) : \E j \in 1..NCols(df) : notna(df.rows[i][j])
        /\ NRows(df) = Len(RemainingRows)
        /\ \E p \in Permutations_of(NRows(df)) :
              /\ \A i \in 1..NRows(df) : df.rows[i] = RemainingRows[p[i]]
              /\ \A i, j \in 1..NRows(df) :
                    (i < j /\ TimeOf(df.rows[i]) = TimeOf(df.rows[j])) => p[i] < p[j]

-----------------------------------------------------------------------------
(* Claims about the lap that is flagged fastest (SpecLaps) *)

\* the first lap, by lap_number, with the smallest positive lap_time
MinimumPositiveLap ==
    {i \in PositiveLaps :
        \A j \in PositiveLaps :
            /\ lap_analysis[i].lap_time.v <= lap_analysis[j].lap_time.v
            /\ lap_analysis[j].lap_time.v = lap_analysis[i].lap_time.v =>
                  lap_analysis[i].lap_number <= lap_analysis[j].lap_number}

\* C20: the lap flagged is_fastest is the lap with the minimum positive
\* lap_time, the one with the smallest lap_number when several share it; a
\* lap whose lap_time is 0, negative or missing is never flagged.
C20_FlaggedLapIsMinimum ==
    Segmented =>
        /\ FastestFlagged \subseteq PositiveLaps
        /\ FastestFlagged = MinimumPositiveLap

-----------------------------------------------------------------------------
(* Claims about the numbering of rows and laps (SpecLaps) *)

\* the number of lap-completion markers in rows 1..i of a column
RECURSIVE MarkersUpTo(_, _)
MarkersUpTo(col, i) ==
    IF i = 0 THEN 0
    ELSE MarkersUpTo(col, i - 1) + (IF col[i] = NaN THEN 0 ELSE 1)
LapNumberOf(i) == Series(df, "lap_number")[i]

\* C21: the lap_number of a row is the count of lap-completion markers up
\* to and including the row, so it never decreases along the rows and goes
\* up by exactly 1 at each marker; the laps returned are numbered 1..k in
\* ascending order with no gap, k being the number of rows with a lap_time,
\* and the rows with lap_number 0 belong to no lap.
C21_LapNumberIsRunningCount ==
    Segmented =>
        LET lt == Series(df, "lap_time")
            ln == IF HasLaps THEN Series(df, "lap_number") ELSE <<>>
        IN  /\ Len(lap_analysis) = MarkersUpTo(lt, NRows(df))
            /\ \A n \in 1..Len(lap_analysis) : lap_analysis[n].lap_number = n
            /\ HasLaps =>
                  /\ \A i \in 1..NRows(df) : ln[i] = Num(MarkersUpTo(lt, i))
                  /\ \A i \in 2..NRows(df) : ln[i - 1].v <= ln[i].v
                  /\ \A i \in 1..NRows(df) :
                        ln[i].v - (IF i = 1 THEN 0 ELSE ln[i - 1].v)
                            = (IF lt[i] = NaN THEN 0 ELSE 1)
                  /\ \A i \in 1..NRows(df) :
                        ln[i] = Num(0) =>
                            \A n \in 1..Len(lap_analysis) :
                                Num(lap_analysis[n].lap_number) # ln[i]

\* a segmented table that starts with rows before the first marker, has
\* rows without a marker between two markers, and gave three laps
C21_Witness ==
    /\ HasLaps
    /\ LapNumberOf(1) = Num(0)
    /\ Len(lap_analysis) = 3
    /\ \E i \in 2..NRows(df) :
          /\ isna(Series(df, "lap_time")[i])
          /\ LapNumberOf(i) = Num(1)

-----------------------------------------------------------------------------
(* Claims about improvement_potential (SpecCompare) *)

Abs(x) == IF x < 0 THEN 0 - x ELSE x
\* the value a metric holds for the session it names
ValueOf(m, name) == dict_value(m.session_values, name)

\* C22: for every metric emitted, improvement_potential is non-negative and
\* is the gap between the worst and the best value as a percentage of the
\* worst value, for lap time and for maximum speed alike, whatever the
\* signs of the session values.
C22_ImprovementIsShareOfWorst ==
    Compared =>
        \A k \in 1..Len(comparison.value.comparison_metrics) :
            LET m == comparison.value.comparison_metrics[k]
                worst == ValueOf(m, m.worst_performance)
                best == ValueOf(m, m.best_performance)
            IN  (worst.k = "num" /\ best.k = "num") =>
                    /\ m.improvement_potential.den > 0
                    /\ m.improvement_potential.num >= 0
                    /\ m.improvement_potential.num * Abs(worst.v)
                          = Abs(worst.v - best.v) * 100 * m.improvement_potential.den

-----------------------------------------------------------------------------
(* Claims about the lap consistency insight (SpecInsights) *)

Insighted == pc = "done" /\ insights.exc = "none"
RECURSIVE SumLapSquares(_)
SumLapSquares(S) ==
    IF S = {} THEN 0
    ELSE LET i == CHOOSE i \in S : TRUE
         IN  lap_analysis[i].lap_time.v * lap_analysis[i].lap_time.v
                + SumLapSquares(S \ {i})
\* the coefficient of variation of the positive lap times, in per cent, is
\* below t: 100 * std < t * mean, both sides squared
VariationBelow(t) ==
    10000 * (Cardinality(PositiveLaps) * SumLapSquares(PositiveLaps)
                - SumLapTimes(PositiveLaps) * SumLapTimes(PositiveLaps))
        < t * t * SumLapTimes(PositiveLaps) * SumLapTimes(PositiveLaps)
ConsistencyEntries ==
    {n \in 1..Len(insights.value.performance_summary) :
        insights.value.performance_summary[n].key = "lap_consistency"}
ConsistencyRecommended ==
    \E n \in 1..Len(insights.value.recommendations) :
        insights.value.recommendations[n] = "Focus on lap time consistency"

\* C23: with at least 2 laps of positive lap_time the rating is "Excellent"
\* for a coefficient of variation below 2, "Good" from 2 to below 5 and
\* "Needs Improvement" otherwise; the consistency recommendation is present
\* exactly when the rating is "Needs Improvement", a coefficient of exactly
\* 5 included; with fewer than 2 positive laps there is no lap_consistency
\* entry.
C23_ConsistencyRating ==
    Insighted =>
        IF Cardinality(PositiveLaps) < 2
        THEN ConsistencyEntries = {}
        ELSE /\ Cardinality(ConsistencyEntries) = 1
             /\ \A n \in ConsistencyEntries :
                   LET rating == insights.value.performance_summary[n].value.rating
                   IN  /\ rating = (IF VariationBelow(2) THEN "Excellent"
                                    ELSE IF VariationBelow(5) THEN "Good"
                                    ELSE "Needs Improvement")
                       /\ ConsistencyRecommended <=> rating = "Needs Improvement"

-----------------------------------------------------------------------------
(* Claims about the required time column (SpecValidate) *)

NoTimeColumnErrors ==
    {i \in Errors : report.issues[i].message = "No time column found"}

\* C24: for an upload that decodes to a table, validate_csv_file reports
\* the error "No time column found" and is_valid = false exactly when no
\* header of the table, as uploaded, is in the time alias list; no other
\* absent canonical column gives an error; missing_columns is ["Time"] in
\* the first case and empty otherwise.
C24_TimeIsTheOnlyRequiredColumn ==
    (Validated /\ DecodableContent) =>
        /\ (NoTimeColumnErrors # {} /\ ~report.is_valid) <=> TimeColumns = {}
        /\ Cardinality(NoTimeColumnErrors) <= 1
        /\ report.missing_columns = (IF TimeColumns = {} THEN <<"Time">> ELSE <<>>)
        /\ \A i \in Errors :
              report.issues[i].message \in
                  {"No time column found", "File is empty or contains no data"}
        /\ (TimeColumns # {} /\ DataRows > 0) => Errors = {} /\ report.is_valid

\* a table with rows and a speed column but no time header: the one error
\* of its report is the missing time column
C24_Witness ==
    /\ Validated
    /\ DecodableContent
    /\ DataRows > 0
    /\ TimeColumns = {}
    /\ \E j \in 1..NCols(content.table) :
          content.table.columns[j] \in parameter_aliases["speed"]
    /\ Errors = NoTimeColumnErrors
    /\ Cardinality(Errors) = 1
    /\ ~report.is_valid
    /\ report.missing_columns = <<"Time">>

-----------------------------------------------------------------------------
(* Claims about the warnings of a report (SpecValidate) *)

MissingCells(j) == {i \in 1..DataRows : isna(content.table.rows[i][j])}
\* the columns of the upload with more than half of their cells missing
MostlyMissingColumns ==
    {j \in 1..NCols(content.table) : 2 * Cardinality(MissingCells(j)) > DataRows}
MissingWarnings(j) ==
    {i \in Warnings :
        /\ report.issues[i].message = "Column has missing values"
        /\ report.issues[i].column = <<content.table.columns[j]>>}
DuplicateWarnings ==
    {i \in Warnings : report.issues[i].message = "Duplicate timestamps found"}

\* C25: on a non-empty table the report has one warning for each column
\* whose fraction of missing cells is strictly above 50% (none for a column
\* exactly half missing) and at most one duplicate-timestamp warning,
\* present exactly when two cells of the detected time column hold the same
\* (two missing cells hold the same); there is no other warning.
C25_WarningsOfNonEmptyTable ==
    (Validated /\ DecodableContent /\ DataRows > 0) =>
        /\ \A j \in 1..NCols(content.table) :
              Cardinality(MissingWarnings(j))
                  = (IF j \in MostlyMissingColumns THEN 1 ELSE 0)
        /\ Cardinality(DuplicateWarnings) <= 1
        /\ DuplicateWarnings # {} <=> (TimeColumns # {} /\ ~NoDuplicateTimes)
        /\ \A i \in DuplicateWarnings :
              report.issues[i].column = <<content.table.columns[TimeColumn]>>
        /\ Cardinality(Warnings)
              = Cardinality(MostlyMissingColumns) + Cardinality(DuplicateWarnings)

\* a table with a column exactly half missing, a column wholly missing and
\* a repeated time: two warnings
C25_Witness ==
    /\ Validated
    /\ DecodableContent
    /\ DataRows = 2
    /\ \E j \in 1..NCols(content.table) : Cardinality(MissingCells(j)) = 1
    /\ Cardinality(MostlyMissingColumns) = 1
    /\ TimeColumns # {}
    /\ content.table.rows[1][TimeColumn] = content.table.rows[2][TimeColumn]
    /\ notna(content.table.rows[1][TimeColumn])
    /\ Cardinality(DuplicateWarnings) = 1
    /\ Cardinality(Warnings) = 2

-----------------------------------------------------------------------------
(* Claims about parameters_found (Spec) *)

Returned == pc = "done" /\ performance_metrics.exc = "none"

\* C26: parameters_found holds exactly the column names of the normalized
\* table, canonical names and passed-through source headers; lap
\* segmentation and metrics calculation leave the columns and the rows of
\* the cleaned table as they are, so no column that does not come from a
\* source header is in parameters_found.
C26_ParametersFoundAreNormalizedColumns ==
    Returned =>
        /\ process_result.parameters_found = NormalizedUpload.columns
        /\ Len(process_result.parameters_found) = Len(SourceColumns)
        /\ \E r \in clean_data(NormalizedUpload) :
              r.exc = "none" /\ df = r.value

-----------------------------------------------------------------------------
(* Claims about the comparison recommendations (SpecRecommend) *)

Recommended == pc = "done"
\* the metrics of a parameter whose improvement_potential is above a limit
MetricsAbove(parameter, limit) ==
    {n \in 1..Len(metric_list) :
        /\ metric_list[n].parameter = parameter
        /\ metric_list[n].improvement_potential.den > 0
        /\ metric_list[n].improvement_potential.num
              > limit * metric_list[n].improvement_potential.den}
Recommendations(text) ==
    {n \in 1..Len(recommendation_list) : recommendation_list[n] = text}

\* C27: the list holds a lap-time recommendation exactly when a "Fastest
\* Lap Time" metric has improvement_potential strictly above 1, a top-speed
\* recommendation exactly when a "Maximum Speed" metric has it strictly
\* above 5, and the one default message exactly when neither applies, so
\* the list is never empty.
C27_RecommendationsFollowThresholds ==
    Recommended =>
        /\ Recommendations("Lap time can be improved") # {}
              <=> MetricsAbove("Fastest Lap Time", 1) # {}
        /\ Recommendations("Top speed can be increased") # {}
              <=> MetricsAbove("Maximum Speed", 5) # {}
        /\ Recommendations("Performance is consistent across sessions") # {}
              <=> (MetricsAbove("Fastest Lap Time", 1) = {}
                   /\ MetricsAbove("Maximum Speed", 5) = {})
        /\ Cardinality(Recommendations("Performance is consistent across sessions"))
              <= 1
        /\ recommendation_list # <<>>
        /\ Len(recommendation_list)
              = Cardinality(Recommendations("Lap time can be improved"))
                + Cardinality(Recommendations("Top speed can be increased"))
                + Cardinality(Recommendations("Performance is consistent across sessions"))

\* a lap time metric at exactly 1 per cent and a speed metric at exactly 5
\* per cent: the default message alone
C27_Witness ==
    /\ Recommended
    /\ \E n \in 1..Len(metric_list) :
          /\ metric_list[n].parameter = "Fastest Lap Time"
          /\ metric_list[n].improvement_potential = Frac(1, 1)
    /\ \E n \in 1..Len(metric_list) :
          /\ metric_list[n].parameter = "Maximum Speed"
          /\ metric_list[n].improvement_potential = Frac(5, 1)
    /\ recommendation_list = <<"Performance is consistent across sessions">>

-----------------------------------------------------------------------------
(* Claims about the lap count of the metadata (Spec) *)

\* C28: in every result of process_csv_data, metadata.total_laps, when it
\* is not absent, is the number of entries of lap_analysis, also for a
\* table whose lap_time column holds non-numeric text.
C28_TotalLapsIsLapCount ==
    Returned =>
        (process_result.metadata.total_laps # <<>> =>
            process_result.metadata.total_laps[1]
                = Len(process_result.lap_analysis))

-----------------------------------------------------------------------------
(* Claims about the lap time a session is compared by (SpecCompare) *)

SessionLaps(n) == session_data[n].data.lap_analysis
\* the sessions with a lap of positive lap_time
WithPositiveLap ==
    {n \in 1..Len(session_data) : positive_lap_times(SessionLaps(n)) # <<>>}
\* the last session, in input order, of each file name
LastOfName ==
    {n \in 1..Len(session_data) :
        \A m \in 1..Len(session_data) :
            session_data[m].filename = session_data[n].filename => m <= n}

\* C29: the value a session is compared by for "Fastest Lap Time" is the
\* fastest_lap of its performance metrics whenever it has a lap of positive
\* lap_time: laps of zero, negative or missing lap_time are left out, and no
\* such lap makes a session best_performance or fastest_overall.
C29_ComparedByFastestLap ==
    Compared =>
        \A k \in MetricsNamed("Fastest Lap Time") :
            LET m == comparison.value.comparison_metrics[k]
            IN  /\ \A n \in WithPositiveLap \cap LastOfName :
                      ValueOf(m, session_data[n].filename)
                          = Num(lap_time_metrics(SessionLaps(n)).fastest_lap)
                /\ WithPositiveLap # {} =>
                      /\ Gt(ValueOf(m, m.best_performance), Num(0))
                      /\ Gt(ValueOf(m, comparison.value.fastest_overall), Num(0))

-----------------------------------------------------------------------------
(* Claims about the entries of a metric (SpecCompare) *)

SessionNames ==
    {comparison.value.session_names[n] :
        n \in 1..Len(comparison.value.session_names)}

\* C30: in every result of compare_sessions the session_values of the
\* "Maximum Speed" metric have exactly one entry per compared session, and
\* best_performance and worst_performance of every metric are names listed
\* in session_names, also when two compared sessions carry the same file
\* name.
C30_OneEntryPerSession ==
    Compared =>
        /\ \A k \in MetricsNamed("Maximum Speed") :
              LET m == comparison.value.comparison_metrics[k]
              IN  /\ Len(m.session_values) = Len(session_data)
                  /\ \A n \in 1..Len(session_data) :
                        \E e \in 1..Len(m.session_values) :
                            /\ m.session_values[e].key = session_data[n].filename
                            /\ m.session_values[e].value
                                  = Num(session_data[n].data.performance_metrics.max_speed)
        /\ \A k \in 1..Len(comparison.value.comparison_metrics) :
              /\ comparison.value.comparison_metrics[k].best_performance \in SessionNames
              /\ comparison.value.comparison_metrics[k].worst_performance \in SessionNames

=============================================================================
